---- MODULE Spec2Model ----
(***************************************************************************)
(* Instruction registry, prompt rendering, the three agents and the        *)
(* NLQ -> SQL pipeline of LLM-Benchmarker (src/utils/custom_instructions.py,*)
(* src/utils/three_agents.py, src/utils/nlq_sql_pipeline.py).               *)
(*                                                                         *)
(* A Python str is a sequence of one-character strings, so that slicing,   *)
(* startswith, strip, split, lower, "in" and str.format are computed       *)
(* character by character as the code computes them.                       *)
(***************************************************************************)
EXTENDS Integers, Sequences, FiniteSets, TLC

\* Python's None where a str is expected (no str is a sequence holding "None").
None == <<"None">>

\* Python's None where a CustomInstruction is expected.
NoneInstruction == [none |-> TRUE]

\* ------------------------------------------------------------------ str

\* The characters str.strip() removes (ASCII whitespace).
Whitespace == {" ", "\t", "\n", "\r", "\f"}

\* s[n:] for 0 <= n
DropFirst(s, n) == IF n >= Len(s) THEN <<>> ELSE SubSeq(s, n + 1, Len(s))

\* s.startswith(p)
StartsWith(s, p) == Len(p) <= Len(s) /\ SubSeq(s, 1, Len(p)) = p

\* p in s
Contains(s, p) ==
    \E i \in 1..(Len(s) - Len(p) + 1) : \A k \in 1..Len(p) : s[i + k - 1] = p[k]

\* s.lstrip(): s from its first character that is not whitespace
LStrip(s) ==
    IF \A i \in 1..Len(s) : s[i] \in Whitespace THEN <<>>
    ELSE LET first == CHOOSE i \in 1..Len(s) :
                          /\ s[i] \notin Whitespace
                          /\ \A j \in 1..(i - 1) : s[j] \in Whitespace
         IN  SubSeq(s, first, Len(s))

\* s.rstrip(): s up to its last character that is not whitespace
RStrip(s) ==
    IF \A i \in 1..Len(s) : s[i] \in Whitespace THEN <<>>
    ELSE LET last == CHOOSE i \in 1..Len(s) :
                         /\ s[i] \notin Whitespace
                         /\ \A j \in (i + 1)..Len(s) : s[j] \in Whitespace
         IN  SubSeq(s, 1, last)

\* s.strip()
Strip(s) == RStrip(LStrip(s))

\* c.lower() for one character (ASCII letters; every other character is kept)
LowerChar(c) ==
    CASE c = "A" -> "a" [] c = "B" -> "b" [] c = "C" -> "c" [] c = "D" -> "d"
      [] c = "E" -> "e" [] c = "F" -> "f" [] c = "G" -> "g" [] c = "H" -> "h"
      [] c = "I" -> "i" [] c = "J" -> "j" [] c = "K" -> "k" [] c = "L" -> "l"
      [] c = "M" -> "m" [] c = "N" -> "n" [] c = "O" -> "o" [] c = "P" -> "p"
      [] c = "Q" -> "q" [] c = "R" -> "r" [] c = "S" -> "s" [] c = "T" -> "t"
      [] c = "U" -> "u" [] c = "V" -> "v" [] c = "W" -> "w" [] c = "X" -> "x"
      [] c = "Y" -> "y" [] c = "Z" -> "z" [] OTHER -> c

\* s.lower()
Lower(s) == [i \in 1..Len(s) |-> LowerChar(s[i])]

\* The index of the first character of s at or after position i that is in the set
\* cs, 0 when there is none (str.find).
Find(s, cs, i) ==
    IF \A j \in i..Len(s) : s[j] \notin cs THEN 0
    ELSE CHOOSE j \in i..Len(s) : s[j] \in cs /\ \A k \in i..(j - 1) : s[k] \notin cs

\* s.split('\n')[0]
FirstLine(s) == LET n == Find(s, {"\n"}, 1) IN IF n = 0 THEN s ELSE SubSeq(s, 1, n - 1)

\* ------------------------------------------------------- text literals

\* The three default keys (_register_defaults) and the tasks of the agents.
KEY_NLQ ==
    <<"n", "l", "q", "_", "r", "e", "f", "i", "n", "e", "m", "e", "n", "t">>

KEY_SQL ==
    <<"s", "q", "l", "_", "g", "e", "n", "e", "r", "a", "t", "i", "o", "n">>

KEY_AMB ==
    <<"a", "m", "b", "i", "g", "u", "i", "t", "y", "_", "d", "e", "t", "e", "c", "t", "i", "o",
      "n">>

\* f"custom_{name}"
CUSTOM_PREFIX ==
    <<"c", "u", "s", "t", "o", "m", "_">>

\* The blank line of f"{system_prompt}\n\n{user_prompt}"
SEP ==
    <<"\n", "\n">>

\* f"Refined from: {user_query}"
REFINED_FROM ==
    <<"R", "e", "f", "i", "n", "e", "d", " ", "f", "r", "o", "m", ":", " ">>

\* The two keyword arguments render_prompt passes to str.format.
F_INPUT ==
    <<"i", "n", "p", "u", "t">>

F_CONTEXT ==
    <<"c", "o", "n", "t", "e", "x", "t">>

\* The system prompts of the defaults are opaque text that no code inspects; each is
\* abbreviated here to its opening lines.
NLQ_SYSTEM ==
    <<"[", "I", "N", "S", "T", "]", " ", "\n", "Y", "o", "u", " ", "a", "r", "e", " ", "a", "n",
      " ", "e", "x", "p", "e", "r", "t", " ", "a", "t", " ", "r", "e", "f", "i", "n", "i", "n",
      "g", " ", "n", "a", "t", "u", "r", "a", "l", " ", "l", "a", "n", "g", "u", "a", "g", "e",
      " ", "q", "u", "e", "r", "i", "e", "s">>

SQL_SYSTEM ==
    <<"[", "I", "N", "S", "T", "]", " ", "\n", "Y", "o", "u", " ", "a", "r", "e", " ", "a", "n",
      " ", "e", "x", "p", "e", "r", "t", " ", "S", "Q", "L", " ", "q", "u", "e", "r", "y", " ",
      "g", "e", "n", "e", "r", "a", "t", "o", "r">>

AMB_SYSTEM ==
    <<"Y", "o", "u", " ", "a", "r", "e", " ", "a", "n", " ", "e", "x", "p", "e", "r", "t", " ",
      "a", "t", " ", "a", "n", "a", "l", "y", "z", "i", "n", "g", " ", "n", "a", "t", "u", "r",
      "a", "l", " ", "l", "a", "n", "g", "u", "a", "g", "e", " ", "f", "o", "r", " ", "a", "m",
      "b", "i", "g", "u", "i", "t", "y", " ", "a", "n", "d", " ", "c", "l", "a", "r", "i", "t",
      "y", ".">>

\* The user prompt templates of the defaults, in full.
NLQ_TEMPLATE ==
    <<"R", "e", "f", "i", "n", "e", " ", "t", "h", "i", "s", " ", "n", "a", "t", "u", "r", "a",
      "l", " ", "l", "a", "n", "g", "u", "a", "g", "e", " ", "q", "u", "e", "r", "y", ":", "\n",
      "\n", "{", "i", "n", "p", "u", "t", "}", "\n", "\n", "{", "c", "o", "n", "t", "e", "x",
      "t", "}", "\n", "\n", "R", "e", "f", "i", "n", "e", "d", " ", "Q", "u", "e", "r", "y", ":">>

SQL_TEMPLATE ==
    <<"G", "e", "n", "e", "r", "a", "t", "e", " ", "S", "Q", "L", " ", "f", "o", "r", " ", "t",
      "h", "i", "s", " ", "r", "e", "f", "i", "n", "e", "d", " ", "q", "u", "e", "r", "y", ":",
      "\n", "\n", "{", "i", "n", "p", "u", "t", "}", "\n", "\n", "{", "c", "o", "n", "t", "e",
      "x", "t", "}", "\n", "\n", "G", "e", "n", "e", "r", "a", "t", "e", " ", "o", "n", "l", "y",
      " ", "t", "h", "e", " ", "S", "Q", "L", " ", "q", "u", "e", "r", "y", " ", "w", "i", "t",
      "h", "o", "u", "t", " ", "e", "x", "p", "l", "a", "n", "a", "t", "i", "o", "n", "s", ".",
      "\n", "\n", "S", "Q", "L", " ", "Q", "u", "e", "r", "y", ":">>

AMB_TEMPLATE ==
    <<"A", "n", "a", "l", "y", "z", "e", " ", "t", "h", "i", "s", " ", "q", "u", "e", "r", "y",
      " ", "f", "o", "r", " ", "a", "m", "b", "i", "g", "u", "i", "t", "y", ":", "\n", "\n", "{",
      "i", "n", "p", "u", "t", "}", "\n", "\n", "{", "c", "o", "n", "t", "e", "x", "t", "}",
      "\n", "\n", "P", "r", "o", "v", "i", "d", "e", ":", "\n", "1", ".", " ", "C", "l", "a",
      "s", "s", "i", "f", "i", "c", "a", "t", "i", "o", "n", ":", " ", "A", "m", "b", "i", "g",
      "u", "o", "u", "s", " ", "o", "r", " ", "C", "l", "e", "a", "r", "\n", "2", ".", " ", "I",
      "d", "e", "n", "t", "i", "f", "i", "e", "d", " ", "a", "m", "b", "i", "g", "u", "i", "t",
      "i", "e", "s", " ", "(", "i", "f", " ", "a", "n", "y", ")", "\n", "3", ".", " ", "S", "u",
      "g", "g", "e", "s", "t", "e", "d", " ", "c", "l", "a", "r", "i", "f", "i", "c", "a", "t",
      "i", "o", "n", "s", "\n", "\n", "A", "s", "s", "e", "s", "s", "m", "e", "n", "t", ":">>

NLQ_DESCRIPTION ==
    <<"N", "L", "Q", " ", "r", "e", "f", "i", "n", "e", "m", "e", "n", "t", " ", "w", "i", "t",
      "h", " ", "S", "Q", "L", " ", "p", "r", "e", "p", "a", "r", "a", "t", "i", "o", "n">>

SQL_DESCRIPTION ==
    <<"S", "Q", "L", " ", "g", "e", "n", "e", "r", "a", "t", "i", "o", "n", " ", "f", "r", "o",
      "m", " ", "r", "e", "f", "i", "n", "e", "d", " ", "N", "L", "Q">>

AMB_DESCRIPTION ==
    <<"D", "e", "t", "e", "c", "t", " ", "a", "m", "b", "i", "g", "u", "i", "t", "y", " ", "i",
      "n", " ", "q", "u", "e", "r", "i", "e", "s">>

\* The pieces of the hardcoded literal prompts of the three agents.
AMB_LITERAL_HEAD ==
    <<"A", "n", "a", "l", "y", "z", "e", " ", "i", "f", " ", "t", "h", "i", "s", " ", "q", "u",
      "e", "r", "y", " ", "i", "s", " ", "a", "m", "b", "i", "g", "u", "o", "u", "s", " ", "o",
      "r", " ", "c", "l", "e", "a", "r", ":", "\n", "\n", "Q", "u", "e", "r", "y", ":", " ">>

AMB_LITERAL_TAIL ==
    <<"\n", "\n", "I", "s", " ", "t", "h", "i", "s", " ", "a", "m", "b", "i", "g", "u", "o", "u",
      "s", "?", " ", "P", "r", "o", "v", "i", "d", "e", " ", "c", "l", "a", "s", "s", "i", "f",
      "i", "c", "a", "t", "i", "o", "n", " ", "(", "A", "m", "b", "i", "g", "u", "o", "u", "s",
      "/", "C", "l", "e", "a", "r", ")", " ", "a", "n", "d", " ", "b", "r", "i", "e", "f", " ",
      "r", "e", "a", "s", "o", "n", ".">>

NLQ_LITERAL_HEAD ==
    <<"R", "e", "f", "i", "n", "e", " ", "t", "h", "i", "s", " ", "u", "s", "e", "r", " ", "q",
      "u", "e", "r", "y", " ", "t", "o", " ", "m", "a", "k", "e", " ", "i", "t", " ", "c", "l",
      "e", "a", "r", "e", "r", " ", "a", "n", "d", " ", "m", "o", "r", "e", " ", "s", "p", "e",
      "c", "i", "f", "i", "c", ":", "\n", "\n", "O", "r", "i", "g", "i", "n", "a", "l", " ", "Q",
      "u", "e", "r", "y", ":", " ">>

NLQ_LITERAL_TAIL ==
    <<"\n", "\n", "P", "r", "o", "v", "i", "d", "e", " ", "a", " ", "r", "e", "f", "i", "n", "e",
      "d", " ", "v", "e", "r", "s", "i", "o", "n", " ", "o", "f", " ", "t", "h", "e", " ", "q",
      "u", "e", "r", "y", " ", "t", "h", "a", "t", " ", "i", "s", ":", "\n", "-", " ", "M", "o",
      "r", "e", " ", "s", "p", "e", "c", "i", "f", "i", "c", " ", "a", "n", "d", " ", "c", "o",
      "m", "p", "l", "e", "t", "e", "\n", "-", " ", "I", "n", "c", "l", "u", "d", "e", "s", " ",
      "n", "e", "c", "e", "s", "s", "a", "r", "y", " ", "d", "e", "t", "a", "i", "l", "s", "\n",
      "-", " ", "C", "l", "e", "a", "r", " ", "a", "b", "o", "u", "t", " ", "i", "n", "t", "e",
      "n", "t", "\n", "\n", "R", "e", "f", "i", "n", "e", "d", " ", "Q", "u", "e", "r", "y", ":">>

SQL_LITERAL_HEAD ==
    <<"G", "e", "n", "e", "r", "a", "t", "e", " ", "a", " ", "S", "Q", "L", " ", "q", "u", "e",
      "r", "y", " ", "f", "o", "r", " ", "t", "h", "i", "s", " ", "r", "e", "q", "u", "e", "s",
      "t", ":", "\n", "\n", "R", "e", "q", "u", "e", "s", "t", ":", " ">>

SQL_LITERAL_TAIL ==
    <<"\n", "\n", "R", "u", "l", "e", "s", ":", "\n", "-", " ", "G", "e", "n", "e", "r", "a",
      "t", "e", " ", "v", "a", "l", "i", "d", " ", "S", "Q", "L", " ", "s", "y", "n", "t", "a",
      "x", "\n", "-", " ", "I", "n", "c", "l", "u", "d", "e", " ", "a", "p", "p", "r", "o", "p",
      "r", "i", "a", "t", "e", " ", "c", "l", "a", "u", "s", "e", "s", " ", "(", "W", "H", "E",
      "R", "E", ",", " ", "G", "R", "O", "U", "P", " ", "B", "Y", ",", " ", "O", "R", "D", "E",
      "R", " ", "B", "Y", " ", "a", "s", " ", "n", "e", "e", "d", "e", "d", ")", "\n", "-", " ",
      "R", "e", "t", "u", "r", "n", " ", "o", "n", "l", "y", " ", "t", "h", "e", " ", "S", "Q",
      "L", " ", "q", "u", "e", "r", "y", " ", "w", "i", "t", "h", "o", "u", "t", " ", "e", "x",
      "p", "l", "a", "n", "a", "t", "i", "o", "n", "s", "\n", "\n", "S", "Q", "L", " ", "Q", "u",
      "e", "r", "y", ":">>

CONTEXT_LABEL ==
    <<"C", "o", "n", "t", "e", "x", "t", ":", " ">>

\* ------------------------------------------------- CustomInstruction

\* CustomInstruction.__init__
CustomInstruction(name, system_prompt, user_prompt_template, description) ==
    [name |-> name, system_prompt |-> system_prompt,
     user_prompt_template |-> user_prompt_template, description |-> description]

Digits == {"0", "1", "2", "3", "4", "5", "6", "7", "8", "9"}

\* Mutant of FormatField: format is given input only, so {context} is a missing key.
FormatField_input_only(field, input, context) ==
    IF field = F_INPUT THEN [exc |-> "none", text |-> input]
    ELSE IF \A i \in 1..Len(field) : field[i] \in Digits THEN [exc |-> "IndexError", text |-> <<>>]
    ELSE [exc |-> "KeyError", text |-> <<>>]

\* The value str.format(input=..., context=...) substitutes for the replacement field
\* named `field`, or the exception the lookup raises: an empty or numeric field is a
\* positional index (there are no positional arguments), any other name a keyword.
\* Field names here hold no conversion (!), format spec (:), attribute or index.
FormatField(field, input, context) ==
    IF field = F_INPUT THEN [exc |-> "none", text |-> input]
    ELSE IF field = F_CONTEXT THEN [exc |-> "none", text |-> context]
    ELSE IF \A i \in 1..Len(field) : field[i] \in Digits THEN [exc |-> "IndexError", text |-> <<>>]
    ELSE [exc |-> "KeyError", text |-> <<>>]

\* template.format(input=input, context=context), scanned left to right from position i
\* with `acc` rendered so far: text up to the next brace is copied, "{{" and "}}" are
\* literal braces, "{name}" is a replacement field, a brace that is neither raises
\* ValueError. The first failure met is the one raised.
RECURSIVE FormatFrom(_, _, _, _, _)
FormatFrom(template, i, acc, input, context) ==
    LET b == Find(template, {"{", "}"}, i)
    IN  IF b = 0 THEN [exc |-> "none", text |-> acc \o DropFirst(template, i - 1)]
        ELSE LET done == acc \o SubSeq(template, i, b - 1)
             IN  IF b < Len(template) /\ template[b + 1] = template[b]
                 THEN FormatFrom(template, b + 2, Append(done, template[b]), input, context)
                 ELSE IF template[b] = "}" THEN [exc |-> "ValueError", text |-> <<>>]
                 ELSE LET close == Find(template, {"}"}, b + 1)
                          open  == Find(template, {"{"}, b + 1)
                      IN  IF close = 0 \/ (open # 0 /\ open < close)
                          THEN [exc |-> "ValueError", text |-> <<>>]
                          ELSE LET value == FormatField(SubSeq(template, b + 1, close - 1),
                                                        input, context)
                               IN  IF value.exc # "none" THEN value
                                   ELSE FormatFrom(template, close + 1,
                                                   done \o value.text, input, context)

\* str.format
Format(template, input, context) == FormatFrom(template, 1, <<>>, input, context)

\* CustomInstruction.render_prompt: (system_prompt, user_prompt), or the exception
\* str.format raises.
render_prompt(self, user_input, context) ==
    LET user_prompt == Format(self.user_prompt_template, user_input, context)
    IN  [exc |-> user_prompt.exc, system_prompt |-> self.system_prompt,
         user_prompt |-> user_prompt.text]

\* ------------------------------------------------ InstructionRegistry

\* Mutant of register: a key already present keeps its instruction (setdefault).
register_keep_first(instrs, key, instruction) ==
    [k \in DOMAIN instrs \cup {key} |-> IF k \in DOMAIN instrs THEN instrs[k] ELSE instruction]

\* InstructionRegistry.register: self.instructions[key] = instruction
register(instrs, key, instruction) ==
    [k \in DOMAIN instrs \cup {key} |-> IF k = key THEN instruction ELSE instrs[k]]

\* Mutant of get: a missing key falls back to the first default instead of None.
get_with_fallback(instrs, key) ==
    IF key \in DOMAIN instrs THEN instrs[key]
    ELSE IF KEY_NLQ \in DOMAIN instrs THEN instrs[KEY_NLQ] ELSE NoneInstruction

\* InstructionRegistry.get: self.instructions.get(key)
get(instrs, key) == IF key \in DOMAIN instrs THEN instrs[key] ELSE NoneInstruction

\* InstructionRegistry.list_all
list_all(instrs) == [k \in DOMAIN instrs |-> instrs[k].description]

\* Mutant of custom_key: the name is used as the key, without the prefix.
custom_key_bare(name) == name

\* The key add_custom builds: f"custom_{name}"
custom_key(name) == CUSTOM_PREFIX \o name

\* InstructionRegistry.add_custom: the registry after it, and the key it returns.
add_custom(instrs, name, system_prompt, user_prompt_template, description) ==
    LET key == custom_key(name)
        instruction == CustomInstruction(name, system_prompt, user_prompt_template,
                                         description)
    IN  [instructions |-> register(instrs, key, instruction), key |-> key]

\* The three instructions _register_defaults registers.
DefaultNLQ == CustomInstruction(KEY_NLQ, NLQ_SYSTEM, NLQ_TEMPLATE, NLQ_DESCRIPTION)

DefaultSQL == CustomInstruction(KEY_SQL, SQL_SYSTEM, SQL_TEMPLATE, SQL_DESCRIPTION)

DefaultAMB == CustomInstruction(KEY_AMB, AMB_SYSTEM, AMB_TEMPLATE, AMB_DESCRIPTION)

\* Mutant of register_defaults: the ambiguity_detection default is left out.
register_defaults_two(instrs) ==
    register(register(instrs, KEY_NLQ, DefaultNLQ), KEY_SQL, DefaultSQL)

\* InstructionRegistry._register_defaults
register_defaults(instrs) ==
    register(register(register(instrs, KEY_NLQ, DefaultNLQ), KEY_SQL, DefaultSQL),
             KEY_AMB, DefaultAMB)

\* InstructionRegistry.__init__: the empty dict, then the defaults. This is the
\* module's global _registry.
NewRegistry == register_defaults(<<>>)

DefaultKeys == {KEY_NLQ, KEY_SQL, KEY_AMB}

\* ---------------------------------------------------------- BaseAgent

\* The keyword defaults of BaseAgent.generate and the max_length each process passes.
DEFAULT_TEMPERATURE_PCT == 70

TOP_P_PCT == 95

TOKENIZER_MAX_LENGTH == 512

AMB_MAX_LENGTH == 256

NLQ_MAX_LENGTH == 256

SQL_MAX_LENGTH == 200

\* What tokenizer.decode(outputs[0]) can give for `prompt` when the model's new text
\* is `completion`: the prompt echoed in front of it ("echo"), the new text without
\* the prompt as given (a prompt truncated to 512 tokens, or changed by the
\* tokenizer's round trip: "bare"), or the echo behind a character the tokenizer
\* puts in front ("shifted").
Decoded(mode, prompt, completion) ==
    CASE mode = "echo"    -> prompt \o completion
      [] mode = "bare"    -> completion
      [] mode = "shifted" -> <<" ">> \o prompt \o completion

\* BaseAgent.generate after decoding: the echoed prompt is cut off.
strip_prompt(prompt, response) ==
    IF Contains(response, prompt) THEN Strip(DropFirst(response, Len(prompt))) ELSE response

\* The record of one call of BaseAgent.generate: what model.generate was given.
GenerateCall(agent, prompt, max_length) ==
    [agent |-> agent, prompt |-> prompt, max_new_tokens |-> max_length,
     temperature_pct |-> DEFAULT_TEMPERATURE_PCT, top_p_pct |-> TOP_P_PCT,
     do_sample |-> TRUE]

\* if custom_instruction_key: (None and the empty str are falsy)
Truthy(key) == key # None /\ key # <<>>

\* Mutant of Compose: one newline between the two prompts.
Compose_single_newline(rendered) ==
    IF rendered.exc # "none" THEN [exc |-> rendered.exc, prompt |-> <<>>]
    ELSE [exc |-> "none",
          prompt |-> rendered.system_prompt \o <<"\n">> \o rendered.user_prompt]

\* f"{system_prompt}\n\n{user_prompt}" of a rendering, or the exception it raised.
Compose(rendered) ==
    IF rendered.exc # "none" THEN [exc |-> rendered.exc, prompt |-> <<>>]
    ELSE [exc |-> "none", prompt |-> rendered.system_prompt \o SEP \o rendered.user_prompt]

\* {f'Context: {context}' if context else ''}
ContextLine(context) == IF context # <<>> THEN CONTEXT_LABEL \o context ELSE <<>>

\* ----------------------------------------------------- AmbiguityAgent

\* AmbiguityAgent._get_default_prompt
amb_get_default_prompt(instrs, input_text) ==
    LET instruction == get(instrs, KEY_AMB)
    IN  IF instruction # NoneInstruction
        THEN Compose(render_prompt(instruction, input_text, <<>>))
        ELSE [exc |-> "none", prompt |-> AMB_LITERAL_HEAD \o input_text \o AMB_LITERAL_TAIL]

\* The prompt AmbiguityAgent.process builds (it has no context parameter and renders
\* with the empty context).
amb_prompt(instrs, input_text, custom_instruction_key) ==
    IF Truthy(custom_instruction_key)
    THEN LET instruction == get(instrs, custom_instruction_key)
         IN  IF instruction # NoneInstruction
             THEN Compose(render_prompt(instruction, input_text, <<>>))
             ELSE amb_get_default_prompt(instrs, input_text)
    ELSE amb_get_default_prompt(instrs, input_text)

\* Mutant of _extract_classification: "clear" is looked for first.
_extract_classification_clear_first(response) ==
    LET response_lower == Lower(response)
        ambiguous == <<"a", "m", "b", "i", "g", "u", "o", "u", "s">>
        not_ambiguous == <<"n", "o", "t", " ">> \o ambiguous
        clear == <<"c", "l", "e", "a", "r">>
    IN  IF Contains(response_lower, clear) \/ Contains(response_lower, not_ambiguous)
        THEN "Clear"
        ELSE IF Contains(response_lower, ambiguous) THEN "Ambiguous"
        ELSE "Unknown"

\* AmbiguityAgent._extract_classification
_extract_classification(response) ==
    LET response_lower == Lower(response)
        ambiguous == <<"a", "m", "b", "i", "g", "u", "o", "u", "s">>
        not_ambiguous == <<"n", "o", "t", " ">> \o ambiguous
        clear == <<"c", "l", "e", "a", "r">>
    IN  IF Contains(response_lower, ambiguous) /\ ~Contains(response_lower, not_ambiguous)
        THEN "Ambiguous"
        ELSE IF Contains(response_lower, clear) \/ Contains(response_lower, not_ambiguous)
        THEN "Clear"
        ELSE "Unknown"

\* The dict AmbiguityAgent.process returns for the response of generate.
amb_result(input_text, response) ==
    [input |-> input_text, classification |-> _extract_classification(response),
     full_response |-> response, task |-> KEY_AMB]

\* ----------------------------------------------------------- NLQAgent

\* NLQAgent._get_default_prompt
nlq_get_default_prompt(instrs, input_text, context) ==
    LET instruction == get(instrs, KEY_NLQ)
    IN  IF instruction # NoneInstruction
        THEN Compose(render_prompt(instruction, input_text, context))
        ELSE [exc |-> "none",
              prompt |-> NLQ_LITERAL_HEAD \o input_text \o SEP \o ContextLine(context)
                         \o NLQ_LITERAL_TAIL]

\* Mutant of nlq_prompt: the custom key is ignored.
nlq_prompt_default_only(instrs, input_text, custom_instruction_key, context) ==
    nlq_get_default_prompt(instrs, input_text, context)

\* The prompt NLQAgent.process builds.
nlq_prompt(instrs, input_text, custom_instruction_key, context) ==
    IF Truthy(custom_instruction_key)
    THEN LET instruction == get(instrs, custom_instruction_key)
         IN  IF instruction # NoneInstruction
             THEN Compose(render_prompt(instruction, input_text, context))
             ELSE nlq_get_default_prompt(instrs, input_text, context)
    ELSE nlq_get_default_prompt(instrs, input_text, context)

\* Mutant of nlq_result: the refined query is cut to its first line, as the SQL is.
nlq_result_first_line(input_text, response) ==
    [input |-> input_text, refined_query |-> Strip(FirstLine(Strip(response))),
     full_response |-> response, task |-> KEY_NLQ]

\* The dict NLQAgent.process returns for the response of generate.
nlq_result(input_text, response) ==
    [input |-> input_text, refined_query |-> Strip(response),
     full_response |-> response, task |-> KEY_NLQ]

\* ----------------------------------------------------------- SQLAgent

\* SQLAgent._get_default_prompt
sql_get_default_prompt(instrs, input_text, context) ==
    LET instruction == get(instrs, KEY_SQL)
    IN  IF instruction # NoneInstruction
        THEN Compose(render_prompt(instruction, input_text, context))
        ELSE [exc |-> "none",
              prompt |-> SQL_LITERAL_HEAD \o input_text \o SEP \o ContextLine(context)
                         \o SQL_LITERAL_TAIL]

\* The prompt SQLAgent.process builds.
sql_prompt(instrs, input_text, custom_instruction_key, context) ==
    IF Truthy(custom_instruction_key)
    THEN LET instruction == get(instrs, custom_instruction_key)
         IN  IF instruction # NoneInstruction
             THEN Compose(render_prompt(instruction, input_text, context))
             ELSE sql_get_default_prompt(instrs, input_text, context)
    ELSE sql_get_default_prompt(instrs, input_text, context)

\* The labels _extract_sql tries, in its order.
SQL_PREFIXES ==
    << <<"S", "Q", "L", ":">>, <<"s", "q", "l", ":">>,
       <<"Q", "U", "E", "R", "Y", ":">>, <<"Q", "u", "e", "r", "y", ":">>,
       <<"S", "E", "L", "E", "C", "T">>, <<"s", "e", "l", "e", "c", "t">> >>

\* Mutant of strip_label: no break, labels are cut off as long as one matches.
RECURSIVE strip_label_repeatedly(_, _)
strip_label_repeatedly(response, i) ==
    IF i > Len(SQL_PREFIXES) THEN response
    ELSE IF StartsWith(response, SQL_PREFIXES[i])
    THEN strip_label_repeatedly(Strip(DropFirst(response, Len(SQL_PREFIXES[i]))), 1)
    ELSE strip_label_repeatedly(response, i + 1)

\* The for loop of _extract_sql from the i-th label on: the first label the response
\* starts with is cut off and the rest stripped, then the loop breaks.
RECURSIVE strip_label(_, _)
strip_label(response, i) ==
    IF i > Len(SQL_PREFIXES) THEN response
    ELSE IF StartsWith(response, SQL_PREFIXES[i])
    THEN Strip(DropFirst(response, Len(SQL_PREFIXES[i])))
    ELSE strip_label(response, i + 1)

\* SQLAgent._extract_sql (str.split always gives at least one line)
_extract_sql(response) == Strip(FirstLine(strip_label(Strip(response), 1)))

\* Mutant of sql_result: the sql is extracted from the input, not from the response.
sql_result_from_input(input_text, response) ==
    [input |-> input_text, sql |-> _extract_sql(input_text),
     full_response |-> response, task |-> KEY_SQL]

\* The dict SQLAgent.process returns for the response of generate.
sql_result(input_text, response) ==
    [input |-> input_text, sql |-> _extract_sql(response),
     full_response |-> response, task |-> KEY_SQL]

\* Mutant of ProcessOutcome: a failure of generate is caught and process returns
\* the result of an empty response.
ProcessOutcome_swallowing(agent, built, max_length, input_text, o) ==
    IF built.exc # "none" THEN [exc |-> built.exc, gens |-> <<>>]
    ELSE LET g == GenerateCall(agent, built.prompt, max_length)
             decoded  == IF o.exc # "none" THEN <<>>
                         ELSE Decoded(o.mode, built.prompt, o.completion)
             response == strip_prompt(built.prompt, decoded)
         IN  [exc |-> "none",
              gens |-> <<[call |-> g, exc |-> o.exc, decoded |-> decoded,
                          response |-> response]>>,
              value |-> CASE agent = "AmbiguityAgent" -> amb_result(input_text, response)
                          [] agent = "NLQAgent" -> nlq_result(input_text, response)
                          [] agent = "SQLAgent" -> sql_result(input_text, response)]

\* One agent.process call from the prompt it built (`built`) and what the model does
\* (`o`: it raises, or decodes to Decoded(o.mode, prompt, o.completion)): the exception
\* process raises or the dict it returns, and the generate calls it made. A failed
\* rendering raises before generate is called; a failure of generate is not caught.
ProcessOutcome(agent, built, max_length, input_text, o) ==
    IF built.exc # "none" THEN [exc |-> built.exc, gens |-> <<>>]
    ELSE LET g == GenerateCall(agent, built.prompt, max_length)
         IN  IF o.exc # "none"
             THEN [exc |-> o.exc, gens |-> <<[call |-> g, exc |-> o.exc]>>]
             ELSE LET decoded  == Decoded(o.mode, built.prompt, o.completion)
                      response == strip_prompt(built.prompt, decoded)
                  IN  [exc |-> "none",
                       gens |-> <<[call |-> g, exc |-> "none", decoded |-> decoded,
                                   response |-> response]>>,
                       value |-> CASE agent = "AmbiguityAgent" -> amb_result(input_text, response)
                                   [] agent = "NLQAgent" -> nlq_result(input_text, response)
                                   [] agent = "SQLAgent" -> sql_result(input_text, response)]

\* AmbiguityAgent.process
AmbiguityAgent_process(instrs, input_text, custom_instruction_key, o) ==
    ProcessOutcome("AmbiguityAgent", amb_prompt(instrs, input_text, custom_instruction_key),
                   AMB_MAX_LENGTH, input_text, o)

\* NLQAgent.process
NLQAgent_process(instrs, input_text, custom_instruction_key, context, o) ==
    ProcessOutcome("NLQAgent", nlq_prompt(instrs, input_text, custom_instruction_key, context),
                   NLQ_MAX_LENGTH, input_text, o)

\* SQLAgent.process
SQLAgent_process(instrs, input_text, custom_instruction_key, context, o) ==
    ProcessOutcome("SQLAgent", sql_prompt(instrs, input_text, custom_instruction_key, context),
                   SQL_MAX_LENGTH, input_text, o)

\* The arguments of one agent.process call.
ProcessCall(agent, input_text, custom_instruction_key, context) ==
    [agent |-> agent, input_text |-> input_text,
     custom_instruction_key |-> custom_instruction_key, context |-> context]

\* Mutant of nlq_stage_args: stage 1 calls the SQL agent.
nlq_stage_args_sql_agent(user_query, nlq_instruction_key) ==
    ProcessCall("SQLAgent", user_query, nlq_instruction_key, <<>>)

\* Stage 1 of NLQSQLPipeline.execute: the arguments of self.nlq_agent.process
\* (context is left at its default).
nlq_stage_args(user_query, nlq_instruction_key) ==
    ProcessCall("NLQAgent", user_query, nlq_instruction_key, <<>>)

\* Mutant of sql_stage_args: the SQL stage is given the original query as its input.
sql_stage_args_unrefined(user_query, nlq_res, sql_instruction_key) ==
    ProcessCall("SQLAgent", user_query, sql_instruction_key, REFINED_FROM \o user_query)

\* Stage 2 of NLQSQLPipeline.execute: the arguments of self.sql_agent.process
sql_stage_args(user_query, nlq_res, sql_instruction_key) ==
    ProcessCall("SQLAgent", nlq_res.refined_query, sql_instruction_key,
                REFINED_FROM \o user_query)

\* Mutant of pipeline_result: sql is the SQL stage's whole response.
pipeline_result_whole_response(user_query, refined_query, nlq, sql) ==
    [original_query |-> user_query, refined_query |-> refined_query,
     sql |-> sql.full_response, stages |-> [nlq |-> nlq, sql |-> sql]]

\* The objects under "stages" of the dict NLQSQLPipeline.execute returns: the two
\* dicts the agents returned are put there themselves, nothing is copied.
stages_objects(nlq_result_id, sql_result_id) ==
    [nlq |-> nlq_result_id, sql |-> sql_result_id]

\* The dict NLQSQLPipeline.execute returns.
pipeline_result(user_query, refined_query, nlq, sql) ==
    [original_query |-> user_query, refined_query |-> refined_query, sql |-> sql.sql,
     stages |-> [nlq |-> nlq, sql |-> sql]]

\* ------------------------------------------------------------- bounds

\* The number of register / add_custom calls after the registry is constructed.
MaxRegs == 2

\* The number of pieces a generated template is put together from.
MaxTemplatePieces == 2

\* The number of pieces a generated response is put together from, per extraction.
MaxVerdictPieces == 2

MaxSqlPieces == 3

MaxAnswerPieces == 2

\* The most test cases one batch holds.
MaxCases == 2

\* The most models run_benchmark is given.
MaxModels == 2

\* The most tasks run_benchmark is given.
MaxTasks == 2

\* ------------------------------------------------------------- inputs

\* Every str put together from at most n of the pieces.
RECURSIVE Pieced(_, _)
Pieced(pieces, n) ==
    IF n = 0 THEN { <<>> }
    ELSE LET shorter == Pieced(pieces, n - 1)
         IN  shorter \cup { s \o piece : s \in shorter, piece \in pieces }

\* User queries: the second would break str.format if a substituted value were parsed.
Inputs == { <<"h", "i">>, <<"{", "x">> }

Contexts == { <<>>, <<"c", "t", "x">> }

\* Names given to add_custom: a fresh one, and one equal to a default key.
Names == { <<"f">>, KEY_SQL }

\* Keys given to register: the empty str and a default key.
RegisterKeys == { <<>>, KEY_SQL }

\* custom_instruction_key given to process: absent, empty, and the key add_custom("f")
\* returns (unknown until then).
ProcessKeys == { None, <<>>, custom_key(<<"f">>) }

PipelineKeys == { None, custom_key(<<"f">>) }

GetKeys == RegisterKeys \cup { custom_key(n) : n \in Names } \cup { KEY_NLQ, <<"z">> }

\* "{input}|{context}"
GoodTemplate ==
    <<"{", "i", "n", "p", "u", "t", "}", "|", "{", "c", "o", "n", "t", "e", "x", "t", "}">>

\* "{x}": a placeholder render_prompt does not supply
BadTemplate == <<"{", "x", "}">>

\* Instructions given to register.
GoodInstruction == CustomInstruction(<<"g">>, <<"G">>, GoodTemplate, <<>>)

BadInstruction == CustomInstruction(<<"b">>, <<"B">>, BadTemplate, <<>>)

Instructions == { GoodInstruction, BadInstruction }

SystemPrompts == { <<"S">> }

Templates == { GoodTemplate, BadTemplate }

Descriptions == { <<"d">> }

\* New text of the model: a labelled multi-line answer inside whitespace, and a verdict.
LabelledAnswer == <<" ", "s", "q", "l", ":", "\n", " ", "A", " ", "\n", "b", " ">>

Verdict == <<"N", "o", "t", " ", "a", "m", "b", "i", "g", "u", "o", "u", "s">>

Modes == { "echo", "bare", "shifted" }

\* What one call of the generation capability does: it raises, or it returns text.
GenOutcomes ==
    { [exc |-> "RuntimeError"],
      [exc |-> "none", mode |-> "echo", completion |-> LabelledAnswer],
      [exc |-> "none", mode |-> "echo", completion |-> Verdict],
      [exc |-> "none", mode |-> "bare", completion |-> LabelledAnswer],
      [exc |-> "none", mode |-> "shifted", completion |-> Verdict] }

\* Pieces of user prompt templates: the two placeholders, braces, other fields.
TemplatePieces ==
    { <<"{", "i", "n", "p", "u", "t", "}">>,
      <<"{", "c", "o", "n", "t", "e", "x", "t", "}">>,
      <<"{">>,
      <<"}">>,
      <<"{", "{">>,
      <<"}", "}">>,
      <<"{", "x", "}">>,
      <<"{", "}">>,
      <<"a">> }

GeneratedTemplates == Pieced(TemplatePieces, MaxTemplatePieces)

\* Pieces of ambiguity verdicts.
VerdictPieces ==
    { <<"a", "m", "b", "i", "g", "u", "o", "u", "s">>,
      <<"A", "M", "B", "I", "G", "U", "O", "U", "S">>,
      <<"n", "o", "t", " ">>,
      <<"N", "o", "t", " ">>,
      <<"c", "l", "e", "a", "r">>,
      <<"C", "l", "e", "a", "r">>,
      <<"u", "n">>,
      <<"x">>,
      <<" ">> }

Verdicts == Pieced(VerdictPieces, MaxVerdictPieces)

\* Pieces of SQL answers: the six labels, whitespace, text.
SqlPieces ==
    { <<"S", "Q", "L", ":">>,
      <<"s", "q", "l", ":">>,
      <<"Q", "U", "E", "R", "Y", ":">>,
      <<"Q", "u", "e", "r", "y", ":">>,
      <<"S", "E", "L", "E", "C", "T">>,
      <<"s", "e", "l", "e", "c", "t">>,
      <<" ">>,
      <<"\n">>,
      <<"x">>,
      <<"x", " ", "\n", "y">> }

\* The two responses of the specification's examples.
SqlExampleLabelled ==
    <<"S", "Q", "L", ":", "\n",
      "S", "E", "L", "E", "C", "T", " ", "*", " ", "F", "R", "O", "M", " ", "t", "\n",
      "W", "H", "E", "R", "E", " ", "x", "=", "1">>

SqlExampleUnlabelled ==
    <<"s", "e", "l", "e", "c", "t", " ", "n", "a", "m", "e", " ", "f", "r", "o", "m", " ", "u",
      "s", "e", "r", "s">>

SqlAnswers == Pieced(SqlPieces, MaxSqlPieces) \cup { SqlExampleLabelled, SqlExampleUnlabelled }

\* Pieces of refined queries.
AnswerPieces ==
    { <<" ">>,
      <<"\n">>,
      <<"\t", "a">>,
      <<"b", "\n", "c", " ">>,
      <<"a">> }

Answers == Pieced(AnswerPieces, MaxAnswerPieces)

\* -------------------------------------------------------------- state

VARIABLES
    instructions,   \* _registry.instructions: key -> CustomInstruction
    lastReg,        \* history: key -> the latest register call that named it
    nRegs,          \* history: the number of register / add_custom calls made
    pc,             \* "idle", the stage NLQSQLPipeline.execute is about to run, or
                    \* "done" when the operation has returned or raised
    call,           \* the operation called last, with its arguments
    ret,            \* what it returned or raised
    gens,           \* the generate calls made by it so far
    procs,          \* the agent.process calls made by it so far
    frame           \* the locals of NLQSQLPipeline.execute, until it has returned; the
                    \* dict the n-th process call of the execute returned is object n

vars == <<instructions, lastReg, nRegs, pc, call, ret, gens, procs, frame>>

Returned(v) == [exc |-> "none", value |-> v]

Raised(e) == [exc |-> e]

Pending == [exc |-> "pending"]

NoFrame == [none |-> TRUE]

NoCall == [op |-> "none"]

\* One register call: the caller (via) and the instruction registered.
LogEntry(via, instruction) == [via |-> via, instruction |-> instruction]

\* The history with one more register call, of `entry` under `key`.
Recorded(hist, key, entry) ==
    [k \in DOMAIN hist \cup {key} |-> IF k = key THEN entry ELSE hist[k]]

\* The register calls of _register_defaults.
InitHistory ==
    Recorded(Recorded(Recorded(<<>>, KEY_NLQ, LogEntry("_register_defaults", DefaultNLQ)),
                      KEY_SQL, LogEntry("_register_defaults", DefaultSQL)),
             KEY_AMB, LogEntry("_register_defaults", DefaultAMB))

Init ==
    /\ instructions = NewRegistry
    /\ lastReg = InitHistory
    /\ nRegs = 0
    /\ pc = "idle"
    /\ call = NoCall
    /\ ret = Returned(None)
    /\ gens = <<>>
    /\ procs = <<>>
    /\ frame = NoFrame

\* Mutant of process_effect: a key the registry does not know is remembered with the
\* instruction the call fell back to.
process_effect_caching(instrs, c) ==
    IF Truthy(c.custom_instruction_key) /\ c.custom_instruction_key \notin DOMAIN instrs
    THEN register(instrs, c.custom_instruction_key, instrs[KEY_NLQ])
    ELSE instrs

\* Mutant of process_effect: the instruction under the key given is used up.
process_effect_consuming(instrs, c) ==
    [k \in DOMAIN instrs \ {c.custom_instruction_key} |-> instrs[k]]

\* The registry after process call c: process reads it through get_instruction and
\* writes nothing, on the registry or on the agent.
process_effect(instrs, c) == instrs

\* register_instruction(key, instruction)
Register(key, instruction) ==
    /\ pc = "idle"
    /\ nRegs < MaxRegs
    /\ nRegs' = nRegs + 1
    /\ instructions' = register(instructions, key, instruction)
    /\ lastReg' = Recorded(lastReg, key, LogEntry("register", instruction))
    /\ call' = [op |-> "register", key |-> key, instruction |-> instruction]
    /\ ret' = Returned(None)
    /\ gens' = <<>>
    /\ procs' = <<>>
    /\ pc' = "done"
    /\ UNCHANGED frame

\* add_custom_instruction(name, system_prompt, user_prompt_template, description)
AddCustom(name, system_prompt, user_prompt_template, description) ==
    /\ pc = "idle"
    /\ nRegs < MaxRegs
    /\ nRegs' = nRegs + 1
    /\ LET r == add_custom(instructions, name, system_prompt, user_prompt_template,
                           description)
       IN  /\ instructions' = r.instructions
           /\ lastReg' = Recorded(lastReg, CUSTOM_PREFIX \o name,
                                  LogEntry("add_custom",
                                           CustomInstruction(name, system_prompt,
                                                             user_prompt_template,
                                                             description)))
           /\ ret' = Returned(r.key)
    /\ call' = [op |-> "add_custom", name |-> name, system_prompt |-> system_prompt,
                user_prompt_template |-> user_prompt_template,
                description |-> description]
    /\ gens' = <<>>
    /\ procs' = <<>>
    /\ pc' = "done"
    /\ UNCHANGED frame

\* get_instruction(key)
Get(key) ==
    /\ pc = "idle"
    /\ call' = [op |-> "get", key |-> key]
    /\ ret' = Returned(get(instructions, key))
    /\ gens' = <<>>
    /\ procs' = <<>>
    /\ pc' = "done"
    /\ UNCHANGED <<instructions, lastReg, nRegs, frame>>

\* get_registry().list_all()
ListAll ==
    /\ pc = "idle"
    /\ call' = [op |-> "list_all"]
    /\ ret' = Returned(list_all(instructions))
    /\ gens' = <<>>
    /\ procs' = <<>>
    /\ pc' = "done"
    /\ UNCHANGED <<instructions, lastReg, nRegs, frame>>

\* One top-level agent.process call, whose outcome is r.
Processed(c, r) ==
    /\ pc = "idle"
    /\ call' = [op |-> "process", args |-> c]
    /\ ret' = IF r.exc # "none" THEN Raised(r.exc) ELSE Returned(r.value)
    /\ gens' = r.gens
    /\ procs' = <<c>>
    /\ pc' = "done"
    /\ instructions' = process_effect(instructions, c)
    /\ UNCHANGED <<lastReg, nRegs, frame>>

\* AmbiguityAgent.process(input_text, custom_instruction_key)
AmbiguityProcess(input_text, key, o) ==
    Processed(ProcessCall("AmbiguityAgent", input_text, key, <<>>),
              AmbiguityAgent_process(instructions, input_text, key, o))

\* NLQAgent.process(input_text, custom_instruction_key, context)
NLQProcess(input_text, key, context, o) ==
    Processed(ProcessCall("NLQAgent", input_text, key, context),
              NLQAgent_process(instructions, input_text, key, context, o))

\* SQLAgent.process(input_text, custom_instruction_key, context)
SQLProcess(input_text, key, context, o) ==
    Processed(ProcessCall("SQLAgent", input_text, key, context),
              SQLAgent_process(instructions, input_text, key, context, o))

\* AmbiguityPipeline.execute(user_query, instruction_key)
AmbiguityExecute(user_query, instruction_key, o) ==
    LET r == AmbiguityAgent_process(instructions, user_query, instruction_key, o)
    IN  /\ pc = "idle"
        /\ call' = [op |-> "AmbiguityPipeline.execute", user_query |-> user_query,
                    instruction_key |-> instruction_key]
        /\ ret' = IF r.exc # "none" THEN Raised(r.exc) ELSE Returned(r.value)
        /\ gens' = r.gens
        /\ procs' = <<ProcessCall("AmbiguityAgent", user_query, instruction_key, <<>>)>>
        /\ pc' = "done"
        /\ instructions' = process_effect(instructions, procs'[1])
        /\ UNCHANGED <<lastReg, nRegs, frame>>

\* NLQSQLPipeline.execute is entered.
ExecuteCall(user_query, nlq_instruction_key, sql_instruction_key) ==
    /\ pc = "idle"
    /\ pc' = "nlq_stage"
    /\ call' = [op |-> "NLQSQLPipeline.execute", user_query |-> user_query,
                nlq_instruction_key |-> nlq_instruction_key,
                sql_instruction_key |-> sql_instruction_key]
    /\ frame' = [user_query |-> user_query, nlq_instruction_key |-> nlq_instruction_key,
                 sql_instruction_key |-> sql_instruction_key]
    /\ ret' = Pending
    /\ gens' = <<>>
    /\ procs' = <<>>
    /\ UNCHANGED <<instructions, lastReg, nRegs>>

\* Stage 1: nlq_result = self.nlq_agent.process(...); refined_query = nlq_result[...]
ExecuteNLQ(o) ==
    /\ pc = "nlq_stage"
    /\ LET c == nlq_stage_args(frame.user_query, frame.nlq_instruction_key)
           r == NLQAgent_process(instructions, c.input_text, c.custom_instruction_key,
                                 c.context, o)
       IN  /\ procs' = Append(procs, c)
           /\ gens' = gens \o r.gens
           /\ IF r.exc # "none"
              THEN /\ pc' = "done"
                   /\ ret' = Raised(r.exc)
                   /\ frame' = frame
              ELSE /\ pc' = "sql_stage"
                   /\ ret' = ret
                   /\ frame' = [user_query |-> frame.user_query,
                                nlq_instruction_key |-> frame.nlq_instruction_key,
                                sql_instruction_key |-> frame.sql_instruction_key,
                                nlq_result |-> r.value,
                                nlq_result_id |-> Len(procs) + 1,
                                refined_query |-> r.value.refined_query]
           /\ instructions' = process_effect(instructions, c)
    /\ UNCHANGED <<lastReg, nRegs, call>>

\* Stage 2: sql_result = self.sql_agent.process(...), and the return.
ExecuteSQL(o) ==
    /\ pc = "sql_stage"
    /\ LET c == sql_stage_args(frame.user_query, frame.nlq_result,
                               frame.sql_instruction_key)
           r == SQLAgent_process(instructions, c.input_text, c.custom_instruction_key,
                                 c.context, o)
       IN  /\ procs' = Append(procs, c)
           /\ gens' = gens \o r.gens
           /\ ret' = IF r.exc # "none" THEN Raised(r.exc)
                     ELSE Returned(pipeline_result(frame.user_query, frame.refined_query,
                                                   frame.nlq_result, r.value))
           /\ frame' = IF r.exc # "none" THEN frame
                       ELSE [user_query |-> frame.user_query,
                             nlq_instruction_key |-> frame.nlq_instruction_key,
                             sql_instruction_key |-> frame.sql_instruction_key,
                             nlq_result |-> frame.nlq_result,
                             nlq_result_id |-> frame.nlq_result_id,
                             refined_query |-> frame.refined_query,
                             sql_result |-> r.value,
                             sql_result_id |-> Len(procs) + 1,
                             stages |-> stages_objects(frame.nlq_result_id, Len(procs) + 1)]
           /\ instructions' = process_effect(instructions, c)
    /\ pc' = "done"
    /\ UNCHANGED <<lastReg, nRegs, call>>

\* The caller has taken what the operation returned or raised; nothing of the call
\* is kept (agents and pipelines store nothing per call).
Return ==
    /\ pc = "done"
    /\ pc' = "idle"
    /\ call' = NoCall
    /\ ret' = Returned(None)
    /\ gens' = <<>>
    /\ procs' = <<>>
    /\ frame' = NoFrame
    /\ UNCHANGED <<instructions, lastReg, nRegs>>

Next ==
    \/ \E key \in RegisterKeys, instruction \in Instructions : Register(key, instruction)
    \/ \E name \in Names, sp \in SystemPrompts, t \in Templates, d \in Descriptions :
           AddCustom(name, sp, t, d)
    \/ \E key \in GetKeys : Get(key)
    \/ ListAll
    \/ \E i \in Inputs, key \in ProcessKeys, o \in GenOutcomes : AmbiguityProcess(i, key, o)
    \/ \E i \in Inputs, key \in ProcessKeys, c \in Contexts, o \in GenOutcomes :
           NLQProcess(i, key, c, o)
    \/ \E i \in Inputs, key \in ProcessKeys, c \in Contexts, o \in GenOutcomes :
           SQLProcess(i, key, c, o)
    \/ \E i \in Inputs, key \in ProcessKeys, o \in GenOutcomes : AmbiguityExecute(i, key, o)
    \/ \E i \in Inputs, nk \in PipelineKeys, sk \in PipelineKeys : ExecuteCall(i, nk, sk)
    \/ \E o \in GenOutcomes : ExecuteNLQ(o)
    \/ \E o \in GenOutcomes : ExecuteSQL(o)
    \/ Return

Spec == Init /\ [][Next]_vars

\* ------------------------------------------------- rendering alone

\* get_instruction(key).render_prompt(user_input, ""): calling the method on the None
\* of an unknown key raises AttributeError.
Render(key, user_input) ==
    /\ pc = "idle"
    /\ call' = [op |-> "render_prompt", key |-> key, user_input |-> user_input,
                context |-> <<>>]
    /\ LET instruction == get(instructions, key)
       IN  IF instruction = NoneInstruction THEN ret' = Raised("AttributeError")
           ELSE LET r == render_prompt(instruction, user_input, <<>>)
                IN  ret' = IF r.exc # "none" THEN Raised(r.exc)
                           ELSE Returned(<<r.system_prompt, r.user_prompt>>)
    /\ gens' = <<>>
    /\ procs' = <<>>
    /\ pc' = "done"
    /\ UNCHANGED <<instructions, lastReg, nRegs, frame>>

\* One instruction with a generated template is registered in the fresh registry, and
\* the instructions of the registry are rendered.
NextRender ==
    \/ \E key \in RegisterKeys, t \in GeneratedTemplates :
           nRegs = 0 /\ Register(key, CustomInstruction(<<"t">>, <<"T">>, t, <<>>))
    \/ \E name \in Names, sp \in SystemPrompts, t \in GeneratedTemplates,
          d \in Descriptions :
           nRegs = 0 /\ AddCustom(name, sp, t, d)
    \/ \E key \in GetKeys, i \in Inputs : Render(key, i)
    \/ Return

SpecRender == Init /\ [][NextRender]_vars

\* ------------------------------------------------ extraction alone

\* AmbiguityAgent._extract_classification(response)
ExtractClassification(response) ==
    /\ pc = "idle"
    /\ call' = [op |-> "_extract_classification", response |-> response]
    /\ ret' = Returned(_extract_classification(response))
    /\ gens' = <<>>
    /\ procs' = <<>>
    /\ pc' = "done"
    /\ UNCHANGED <<instructions, lastReg, nRegs, frame>>

\* SQLAgent._extract_sql(response)
ExtractSql(response) ==
    /\ pc = "idle"
    /\ call' = [op |-> "_extract_sql", response |-> response]
    /\ ret' = Returned(_extract_sql(response))
    /\ gens' = <<>>
    /\ procs' = <<>>
    /\ pc' = "done"
    /\ UNCHANGED <<instructions, lastReg, nRegs, frame>>

\* What generation does with a generated answer as the model's new text.
AnswerOutcomes == { [exc |-> "none", mode |-> m, completion |-> c] : m \in Modes, c \in Answers }

\* The two static extractions on generated responses, and NLQAgent.process on
\* generated answers of the model.
NextExtract ==
    \/ \E response \in Verdicts : ExtractClassification(response)
    \/ \E response \in SqlAnswers : ExtractSql(response)
    \/ \E i \in Inputs, c \in Contexts, o \in AnswerOutcomes : NLQProcess(i, None, c, o)
    \/ Return

SpecExtract == Init /\ [][NextExtract]_vars

\* ------------------------------------------------- batch drivers

\* get_schema_context(): SCHEMA_CONTEXT is opaque text that no code inspects; it is
\* abbreviated here to its heading.
SCHEMA_CONTEXT ==
    <<"\n", "#", "#", "#", " ", "D", "a", "t", "a", "b", "a", "s", "e", " ", "S", "c", "h", "e",
      "m", "a", " ", "#", "#", "#", "\n">>

\* NLQSQLPipeline(nlq_agent, sql_agent, **kwargs): __init__ takes the two agents and
\* nothing else, so any keyword argument besides them raises TypeError.
NLQSQLPipeline_init(nlq_agent, sql_agent, kwargs) ==
    IF kwargs # {} THEN [exc |-> "TypeError"]
    ELSE [exc |-> "none", value |-> [nlq_agent |-> nlq_agent, sql_agent |-> sql_agent]]

\* The cells of the expected_output column: a str, or the NaN pandas reads from an
\* empty cell.
StrCell(text) == [kind |-> "str", text |-> text]

NaNCell == [kind |-> "nan"]

\* str(v) for a cell v
str_of(v) == IF v.kind = "nan" THEN <<"n", "a", "n">> ELSE v.text

\* row.get('expected_output', '') where has_column says whether the DataFrame has the
\* column
row_get_expected(has_column, row) ==
    IF has_column THEN row.expected_output ELSE StrCell(<<>>)

\* test_result["passed"]: the outputs compared after strip() when the DataFrame has an
\* expected_output column, None otherwise ("True", "False", "None").
test_passed(has_column, row, output) ==
    IF ~has_column THEN "None"
    ELSE IF Strip(output) = Strip(str_of(row_get_expected(has_column, row))) THEN "True"
    ELSE "False"

\* Mutant of run_tests_case: a case that raises is recorded and not counted.
run_tests_case_error_uncounted(results, idx, has_column, row, out) ==
    IF out.exc # "none"
    THEN [total |-> results.total, passed |-> results.passed, failed |-> results.failed,
          results |-> Append(results.results, [index |-> idx, error |-> out.exc])]
    ELSE LET passed == test_passed(has_column, row, out.output)
         IN  [total |-> results.total,
              passed |-> results.passed + (IF passed = "True" THEN 1 ELSE 0),
              failed |-> results.failed + (IF passed = "False" THEN 1 ELSE 0),
              results |-> Append(results.results,
                                 [index |-> idx, input |-> row.input,
                                  expected |-> row_get_expected(has_column, row),
                                  output |-> out.output, passed |-> passed])]

\* One iteration of the for loop of SimpleBenchmark.run_tests on the row at position
\* idx, where agent.execute does `out` (raises, or returns out.output): the results
\* dict after it. Any exception is caught and counted as failed.
run_tests_case(results, idx, has_column, row, out) ==
    IF out.exc # "none"
    THEN [total |-> results.total, passed |-> results.passed,
          failed |-> results.failed + 1,
          results |-> Append(results.results, [index |-> idx, error |-> out.exc])]
    ELSE LET test_result == [index |-> idx, input |-> row.input,
                             expected |-> row_get_expected(has_column, row),
                             output |-> out.output,
                             passed |-> test_passed(has_column, row, out.output)]
         IN  [total |-> results.total,
              passed |-> results.passed + (IF test_result.passed = "True" THEN 1 ELSE 0),
              failed |-> results.failed + (IF test_result.passed = "False" THEN 1 ELSE 0),
              results |-> Append(results.results, test_result)]

\* Sequences of at most n elements of set S.
RECURSIVE UpTo(_, _)
UpTo(S, n) ==
    IF n = 0 THEN { <<>> }
    ELSE LET shorter == UpTo(S, n - 1)
         IN  shorter \cup { Append(s, x) : s \in shorter, x \in S }

\* The queries load_queries reads from the queries file.
QueryLists == UpTo(Inputs, MaxCases)

\* The rows of a test_data DataFrame, which has an expected_output column or not.
Rows ==
    { [input |-> <<"h", "i">>, expected_output |-> e] :
          e \in { NaNCell, StrCell(<<>>), StrCell(<<"x">>), StrCell(<<"y", " ">>) } }

TestData == { [has_column |-> h, rows |-> rs] : h \in BOOLEAN, rs \in UpTo(Rows, MaxCases) }

\* What agent.execute does with one input: it raises, or returns a str.
ExecuteOutcomes ==
    { [exc |-> "RuntimeError"] }
        \cup { [exc |-> "none", output |-> t] :
                   t \in { <<>>, <<"x">>, <<" ", "y">>, <<"n", "a", "n">> } }

\* benchmark_ambiguity(custom_instruction_key=...) is entered and has loaded its
\* queries; results = []
BenchmarkAmbiguityCall(queries, custom_instruction_key) ==
    /\ pc = "idle"
    /\ pc' = "ambiguity_loop"
    /\ call' = [op |-> "benchmark_ambiguity", queries |-> queries,
                custom_instruction_key |-> custom_instruction_key]
    /\ frame' = [results |-> <<>>, saved |-> FALSE]
    /\ ret' = Pending
    /\ gens' = <<>>
    /\ procs' = <<>>
    /\ UNCHANGED <<instructions, lastReg, nRegs>>

\* One iteration of its for loop: agent.process is not guarded, what it raises leaves
\* the function.
BenchmarkAmbiguityCase(o) ==
    /\ pc = "ambiguity_loop"
    /\ Len(frame.results) < Len(call.queries)
    /\ LET query == call.queries[Len(frame.results) + 1]
           r == AmbiguityAgent_process(instructions, query, call.custom_instruction_key, o)
       IN  /\ procs' = Append(procs, ProcessCall("AmbiguityAgent", query,
                                                 call.custom_instruction_key, <<>>))
           /\ gens' = gens \o r.gens
           /\ IF r.exc # "none"
              THEN /\ pc' = "done"
                   /\ ret' = Raised(r.exc)
                   /\ frame' = frame
              ELSE /\ pc' = pc
                   /\ ret' = ret
                   /\ frame' = [results |-> Append(frame.results, r.value),
                                saved |-> FALSE]
    /\ UNCHANGED <<instructions, lastReg, nRegs, call>>

\* Mutant of save_summary: the average of an empty batch is taken as zero.
save_summary_guarded(queries, results) == [exc |-> "none", saved |-> TRUE]

\* The statements of benchmark_ambiguity after its loop: the summary dict is built,
\* avg_time_per_query being total_time / len(queries), and then the results file is
\* opened and the summary dumped into it.
save_summary(queries, results) ==
    IF Len(queries) = 0 THEN [exc |-> "ZeroDivisionError", saved |-> FALSE]
    ELSE [exc |-> "none", saved |-> TRUE]

\* After the loop: the summary divides by len(queries) before the results file is
\* opened and written.
BenchmarkAmbiguitySave ==
    /\ pc = "ambiguity_loop"
    /\ Len(frame.results) = Len(call.queries)
    /\ LET s == save_summary(call.queries, frame.results)
       IN  /\ ret' = IF s.exc # "none" THEN Raised(s.exc) ELSE Returned(None)
           /\ frame' = [results |-> frame.results, saved |-> s.saved]
    /\ pc' = "done"
    /\ UNCHANGED <<instructions, lastReg, nRegs, call, gens, procs>>

\* benchmark_nlq_sql_pipeline(...): the queries are loaded, the schema context is
\* fetched, the agents are made, and NLQSQLPipeline is constructed with the keyword
\* argument schema_context. The statements after the construction run only when it
\* returns.
BenchmarkPipeline(query_pairs, nlq_instruction_key, sql_instruction_key) ==
    /\ pc = "idle"
    /\ call' = [op |-> "benchmark_nlq_sql_pipeline", query_pairs |-> query_pairs,
                nlq_instruction_key |-> nlq_instruction_key,
                sql_instruction_key |-> sql_instruction_key]
    /\ LET pipeline == NLQSQLPipeline_init("NLQAgent", "SQLAgent", {"schema_context"})
       IN  /\ pipeline.exc # "none"
           /\ ret' = Raised(pipeline.exc)
    /\ frame' = [schema_context |-> SCHEMA_CONTEXT, results |-> <<>>, saved |-> FALSE]
    /\ gens' = <<>>
    /\ procs' = <<>>
    /\ pc' = "done"
    /\ UNCHANGED <<instructions, lastReg, nRegs>>

\* SimpleBenchmark.run_tests(agent, test_data) is entered; test_data has the default
\* index 0, 1, ... that load_test_data gives it.
RunTestsCall(test_data) ==
    /\ pc = "idle"
    /\ pc' = "tests_loop"
    /\ call' = [op |-> "run_tests", test_data |-> test_data]
    /\ frame' = [total |-> Len(test_data.rows), passed |-> 0, failed |-> 0,
                 results |-> <<>>]
    /\ ret' = Pending
    /\ gens' = <<>>
    /\ procs' = <<>>
    /\ UNCHANGED <<instructions, lastReg, nRegs>>

\* One iteration of its for loop.
RunTestsCase(out) ==
    /\ pc = "tests_loop"
    /\ Len(frame.results) < Len(call.test_data.rows)
    /\ frame' = run_tests_case(frame, Len(frame.results), call.test_data.has_column,
                               call.test_data.rows[Len(frame.results) + 1], out)
    /\ UNCHANGED <<instructions, lastReg, nRegs, pc, call, ret, gens, procs>>

\* return results
RunTestsReturn ==
    /\ pc = "tests_loop"
    /\ Len(frame.results) = Len(call.test_data.rows)
    /\ ret' = Returned(frame)
    /\ pc' = "done"
    /\ UNCHANGED <<instructions, lastReg, nRegs, call, gens, procs, frame>>

\* The models of a benchmark configuration: each has a model_id (here its position in
\* the list) and an enabled flag that is true, false or missing.
EnabledFlags == {"True", "False", "missing"}

ConfigModels ==
    { [i \in 1..Len(flags) |-> [model_id |-> i, enabled |-> flags[i]]] :
          flags \in UpTo(EnabledFlags, MaxModels) }

\* m.get('enabled', True)
get_enabled(m) == m.enabled # "False"

\* enabled_models = [m for m in self.config.models if m.get('enabled', True)]
enabled_models(models) == SelectSeq(models, get_enabled)

\* What can raise in benchmark_nlq_sql_pipeline before the pipeline is constructed:
\* load_queries (the file is missing) and the loading of the two agents' model.
BenchmarkOutcomes == {"none", "FileNotFoundError", "OSError"}

\* benchmark_nlq_sql_pipeline(model_id, ...) as run_all_benchmarks sees it: the
\* exception it raises, "none" when it returns.
benchmark_nlq_sql_pipeline(o) ==
    IF o # "none" THEN o
    ELSE NLQSQLPipeline_init("NLQAgent", "SQLAgent", {"schema_context"}).exc

\* Mutant of run_model: the exception of a benchmark is not caught.
run_model_uncaught(model_results, model_config, exc) ==
    IF exc = "none"
    THEN [exc |-> "none",
          model_results |-> Append(model_results,
                                   [model |-> model_config.model_id, status |-> "completed"])]
    ELSE [exc |-> exc, model_results |-> model_results]

\* The body of the loop of run_all_benchmarks for one enabled model whose benchmark
\* raises exc or returns: the try block appends a 'completed' result, the except
\* clause a 'failed' one, and nothing leaves the loop body.
run_model(model_results, model_config, exc) ==
    IF exc = "none"
    THEN [exc |-> "none",
          model_results |-> Append(model_results,
                                   [model |-> model_config.model_id, status |-> "completed"])]
    ELSE [exc |-> "none",
          model_results |-> Append(model_results,
                                   [model |-> model_config.model_id, status |-> "failed",
                                    error |-> exc])]

\* MultiModelBenchmark.run_all_benchmarks is entered; with no model enabled it
\* returns at once.
RunAllBenchmarksCall(models) ==
    /\ pc = "idle"
    /\ pc' = IF enabled_models(models) = <<>> THEN "done" ELSE "models_loop"
    /\ call' = [op |-> "run_all_benchmarks", models |-> models]
    /\ frame' = [enabled_models |-> enabled_models(models), model_results |-> <<>>,
                 raised |-> <<>>, saved |-> FALSE]
    /\ ret' = IF enabled_models(models) = <<>> THEN Returned(None) ELSE Pending
    /\ gens' = <<>>
    /\ procs' = <<>>
    /\ UNCHANGED <<instructions, lastReg, nRegs>>

\* One iteration of its loop; frame.raised keeps what each benchmark raised.
RunAllBenchmarksModel(o) ==
    /\ pc = "models_loop"
    /\ Len(frame.raised) < Len(frame.enabled_models)
    /\ LET exc == benchmark_nlq_sql_pipeline(o)
           r   == run_model(frame.model_results,
                            frame.enabled_models[Len(frame.raised) + 1], exc)
       IN  /\ frame' = [frame EXCEPT !.model_results = r.model_results,
                                     !.raised = Append(@, exc)]
           /\ pc' = IF r.exc # "none" THEN "done" ELSE pc
           /\ ret' = IF r.exc # "none" THEN Raised(r.exc) ELSE ret
    /\ UNCHANGED <<instructions, lastReg, nRegs, call, gens, procs>>

\* After the loop: self.results['models'] = model_results; self.save_summary()
RunAllBenchmarksSave ==
    /\ pc = "models_loop"
    /\ Len(frame.raised) = Len(frame.enabled_models)
    /\ frame' = [frame EXCEPT !.saved = TRUE]
    /\ ret' = Returned(None)
    /\ pc' = "done"
    /\ UNCHANGED <<instructions, lastReg, nRegs, call, gens, procs>>

NextBatch ==
    \/ \E models \in ConfigModels : RunAllBenchmarksCall(models)
    \/ \E o \in BenchmarkOutcomes : RunAllBenchmarksModel(o)
    \/ RunAllBenchmarksSave
    \/ \E qs \in QueryLists, key \in ProcessKeys : BenchmarkAmbiguityCall(qs, key)
    \/ \E o \in GenOutcomes : BenchmarkAmbiguityCase(o)
    \/ BenchmarkAmbiguitySave
    \/ \E qs \in QueryLists, nk \in PipelineKeys, sk \in PipelineKeys :
           BenchmarkPipeline(qs, nk, sk)
    \/ \E td \in TestData : RunTestsCall(td)
    \/ \E out \in ExecuteOutcomes : RunTestsCase(out)
    \/ RunTestsReturn
    \/ Return

SpecBatch == Init /\ [][NextBatch]_vars

\* ------------------------------------------------- process called twice

\* agent.process for the agent and arguments of call c, with registry instrs.
Process(instrs, c, o) ==
    CASE c.agent = "AmbiguityAgent" ->
             AmbiguityAgent_process(instrs, c.input_text, c.custom_instruction_key, o)
      [] c.agent = "NLQAgent" ->
             NLQAgent_process(instrs, c.input_text, c.custom_instruction_key, c.context, o)
      [] c.agent = "SQLAgent" ->
             SQLAgent_process(instrs, c.input_text, c.custom_instruction_key, c.context, o)

\* The calls an agent can be given; AmbiguityAgent.process takes no context.
ProcessCalls ==
    { ProcessCall("AmbiguityAgent", i, key, <<>>) : i \in Inputs, key \in ProcessKeys }
        \cup { ProcessCall(agent, i, key, c) :
                   agent \in {"NLQAgent", "SQLAgent"}, i \in Inputs, key \in ProcessKeys,
                   c \in Contexts }

\* The first of two process calls with the same arguments on the same agent.
ProcessFirst(c, o) ==
    LET r == Process(instructions, c, o)
    IN  /\ pc = "idle"
        /\ pc' = "again"
        /\ call' = [op |-> "process", args |-> c]
        /\ ret' = IF r.exc # "none" THEN Raised(r.exc) ELSE Returned(r.value)
        /\ gens' = r.gens
        /\ procs' = <<c>>
        /\ frame' = [first |-> ret', o |-> o]
        /\ instructions' = process_effect(instructions, c)
        /\ UNCHANGED <<lastReg, nRegs>>

\* The second call. The generation capability is deterministic: given the generate
\* call of the first time it does what it did the first time.
ProcessAgain(o) ==
    LET c == procs[1]
        r == Process(instructions, c, o)
    IN  /\ pc = "again"
        /\ (gens # <<>> /\ r.gens # <<>> /\ r.gens[1].call = gens[1].call) => o = frame.o
        /\ pc' = "done"
        /\ ret' = IF r.exc # "none" THEN Raised(r.exc) ELSE Returned(r.value)
        /\ gens' = gens \o r.gens
        /\ procs' = Append(procs, c)
        /\ instructions' = process_effect(instructions, c)
        /\ UNCHANGED <<lastReg, nRegs, call, frame>>

\* One instruction is registered in the fresh registry, and process is called twice
\* with nothing in between.
NextTwice ==
    \/ \E key \in RegisterKeys, instruction \in Instructions :
           nRegs = 0 /\ Register(key, instruction)
    \/ \E name \in Names, sp \in SystemPrompts, t \in Templates, d \in Descriptions :
           nRegs = 0 /\ AddCustom(name, sp, t, d)
    \/ \E c \in ProcessCalls, o \in GenOutcomes : ProcessFirst(c, o)
    \/ \E o \in GenOutcomes : ProcessAgain(o)
    \/ Return

SpecTwice == Init /\ [][NextTwice]_vars

\* ------------------------------------------------- register between two calls

\* Mutant of resolved_registry: the agent keeps the instructions of its construction.
resolved_registry_at_construction(current, at_construction) == at_construction

\* The instructions a process call resolves its key in: get_instruction reads the
\* global _registry when it is called, whatever the registry held when the agent was
\* made (at_construction).
resolved_registry(current, at_construction) == current

\* Keys registered between the calls: the default key of each task and a custom key.
ReRegisterKeys == DefaultKeys \cup { custom_key(<<"f">>) }

\* The calls made twice: one input, every agent, key and context.
ResolveCalls == { c \in ProcessCalls : c.input_text = <<"h", "i">> }

\* The first of two process calls on one agent, made when it is constructed.
ProcessOne(c, o) ==
    LET r == Process(resolved_registry(instructions, instructions), c, o)
    IN  /\ pc = "idle"
        /\ pc' = "between"
        /\ call' = [op |-> "process", args |-> c]
        /\ ret' = IF r.exc # "none" THEN Raised(r.exc) ELSE Returned(r.value)
        /\ gens' = r.gens
        /\ procs' = <<c>>
        /\ frame' = [first |-> ret', first_gens |-> r.gens,
                     constructed_with |-> instructions, reregistered |-> None]
        /\ instructions' = process_effect(instructions, c)
        /\ UNCHANGED <<lastReg, nRegs>>

\* register_instruction(key, instruction) between the two calls; the caller still
\* holds what the first call returned.
ReRegister(key, instruction) ==
    /\ pc = "between"
    /\ nRegs < MaxRegs
    /\ nRegs' = nRegs + 1
    /\ pc' = "second"
    /\ instructions' = register(instructions, key, instruction)
    /\ lastReg' = Recorded(lastReg, key, LogEntry("register", instruction))
    /\ frame' = [frame EXCEPT !.reregistered = key]
    /\ UNCHANGED <<call, ret, gens, procs>>

\* The second call on the same agent, with the arguments of the first.
ProcessTwo(o) ==
    LET c == procs[1]
        r == Process(resolved_registry(instructions, frame.constructed_with), c, o)
    IN  /\ pc = "second"
        /\ pc' = "done"
        /\ ret' = IF r.exc # "none" THEN Raised(r.exc) ELSE Returned(r.value)
        /\ gens' = gens \o r.gens
        /\ procs' = Append(procs, c)
        /\ instructions' = process_effect(instructions, c)
        /\ UNCHANGED <<lastReg, nRegs, call, frame>>

NextResolve ==
    \/ \E name \in Names, sp \in SystemPrompts, t \in Templates, d \in Descriptions :
           nRegs = 0 /\ AddCustom(name, sp, t, d)
    \/ \E c \in ResolveCalls, o \in GenOutcomes : ProcessOne(c, o)
    \/ \E key \in ReRegisterKeys, instruction \in Instructions : ReRegister(key, instruction)
    \/ \E o \in GenOutcomes : ProcessTwo(o)
    \/ Return

SpecResolve == Init /\ [][NextResolve]_vars

\* ------------------------------------------------- run_benchmark

\* The keys of AGENT_REGISTRY.
AGENT_REGISTRY == {"nl_to_sql", "ambiguity_intent"}

\* The task types a tasks list is made of: the registered ones, and one for which no
\* agent is registered.
TaskTypes == AGENT_REGISTRY \cup {"summarization"}

TaskLists == UpTo(TaskTypes, MaxTasks)

\* The models lists; a model is named by its position.
ModelLists == { [i \in 1..n |-> i] : n \in 0..MaxModels }

\* What load_test_data does: pandas raises on a file it cannot parse, or a DataFrame
\* of some rows is returned (none when the file is missing or holds no row).
LoadOutcomes ==
    { [exc |-> "EmptyDataError"] } \cup { [exc |-> "none", rows |-> n] : n \in 0..MaxCases }

NoBenchmark == [none |-> TRUE]

NoAgent == [none |-> TRUE]

\* SimpleBenchmark(): the object of one iteration, with the calls made on it.
SimpleBenchmark(model_id) ==
    [model_id |-> model_id, model_loaded |-> FALSE, engine_ready |-> FALSE,
     cleanup_calls |-> 0]

\* SimpleBenchmark.create_agent(task_type) for a registered task: the agent is
\* constructed and agent.setup() is called on it.
create_agent(task_type) ==
    [task_type |-> task_type, setup_calls |-> 1, execute_calls |-> 0,
     teardown_calls |-> 0, tests_done |-> FALSE]

\* The locals of run_benchmark with some of them replaced.
RunFrame(finished, begun, benchmark, tasks_done, rows, agent, saved) ==
    [finished |-> finished, begun |-> begun, benchmark |-> benchmark,
     tasks_done |-> tasks_done, rows |-> rows, agent |-> agent, saved |-> saved]

\* The iteration of the current model ends (its `continue`, or the end of the loop
\* body).
NextModel(b) ==
    RunFrame(Append(frame.finished, b), frame.begun, b, frame.tasks_done, frame.rows,
             frame.agent, frame.saved)

\* The iteration of the current task ends (its `continue`, the end of the try block,
\* or its except clause).
NextTask(agent, saved) ==
    RunFrame(frame.finished, frame.begun, frame.benchmark, frame.tasks_done + 1, 0,
             agent, saved)

\* run_benchmark(models, tasks) is entered.
RunBenchmarkCall(models, tasks) ==
    /\ pc = "idle"
    /\ pc' = "next_model"
    /\ call' = [op |-> "run_benchmark", models |-> models, tasks |-> tasks]
    /\ frame' = RunFrame(<<>>, 0, NoBenchmark, 0, 0, NoAgent, 0)
    /\ ret' = Pending
    /\ gens' = <<>>
    /\ procs' = <<>>
    /\ UNCHANGED <<instructions, lastReg, nRegs>>

\* benchmark = SimpleBenchmark(); Step 1: download_model returns whether it loaded
\* the model, and the iteration is left when it did not.
DownloadModel(ok) ==
    /\ pc = "next_model"
    /\ frame.begun < Len(call.models)
    /\ LET b == [SimpleBenchmark(call.models[frame.begun + 1]) EXCEPT !.model_loaded = ok]
           f == RunFrame(frame.finished, frame.begun + 1, b, 0, 0, frame.agent,
                         frame.saved)
       IN  IF ok
           THEN pc' = "setup_engine" /\ frame' = f
           ELSE pc' = "next_model"
                /\ frame' = [f EXCEPT !.finished = Append(frame.finished, b)]
    /\ UNCHANGED <<instructions, lastReg, nRegs, call, ret, gens, procs>>

\* Step 2: setup_inference_engine returns whether the engine is ready, and the
\* iteration is left when it is not.
SetupInferenceEngine(ok) ==
    /\ pc = "setup_engine"
    /\ LET b == [frame.benchmark EXCEPT !.engine_ready = ok]
       IN  IF ok
           THEN /\ pc' = "next_task"
                /\ frame' = [frame EXCEPT !.benchmark = b]
           ELSE /\ pc' = "next_model"
                /\ frame' = NextModel(b)
    /\ UNCHANGED <<instructions, lastReg, nRegs, call, ret, gens, procs>>

\* test_data = load_test_data(csv_file), outside the try block: what it raises
\* leaves run_benchmark; the task is skipped when test_data.empty.
LoadTestData(d) ==
    /\ pc = "next_task"
    /\ frame.tasks_done < Len(call.tasks)
    /\ IF d.exc # "none"
       THEN pc' = "done" /\ ret' = Raised(d.exc) /\ frame' = frame
       ELSE IF d.rows = 0
       THEN pc' = "next_task" /\ ret' = ret
            /\ frame' = NextTask(frame.agent, frame.saved)
       ELSE pc' = "create_agent" /\ ret' = ret /\ frame' = [frame EXCEPT !.rows = d.rows]
    /\ UNCHANGED <<instructions, lastReg, nRegs, call, gens, procs>>

\* Step 3: agent = benchmark.create_agent(task_type); the ValueError of a task that
\* is not registered is caught by the except clause of the task.
CreateAgent ==
    /\ pc = "create_agent"
    /\ LET task_type == call.tasks[frame.tasks_done + 1]
       IN  IF task_type \notin AGENT_REGISTRY
           THEN pc' = "next_task" /\ frame' = NextTask(frame.agent, frame.saved)
           ELSE pc' = "run_tests" /\ frame' = [frame EXCEPT !.agent = create_agent(task_type)]
    /\ UNCHANGED <<instructions, lastReg, nRegs, call, ret, gens, procs>>

\* Step 4: one iteration of the loop of run_tests, which calls agent.execute and
\* catches what it raises.
RunTestsExecute ==
    /\ pc = "run_tests"
    /\ frame.agent.execute_calls < frame.rows
    /\ frame' = [frame EXCEPT !.agent.execute_calls = @ + 1]
    /\ UNCHANGED <<instructions, lastReg, nRegs, pc, call, ret, gens, procs>>

\* run_tests has returned; save_results writes the results file, and the OSError it
\* may raise is caught by the except clause of the task. The task is over.
SaveResults(ok) ==
    /\ pc = "run_tests"
    /\ frame.agent.execute_calls = frame.rows
    /\ pc' = "next_task"
    /\ frame' = NextTask([frame.agent EXCEPT !.tests_done = TRUE],
                         frame.saved + (IF ok THEN 1 ELSE 0))
    /\ UNCHANGED <<instructions, lastReg, nRegs, call, ret, gens, procs>>

\* Step 5, after the tasks: benchmark.cleanup()
Cleanup ==
    /\ pc = "next_task"
    /\ frame.tasks_done = Len(call.tasks)
    /\ pc' = "next_model"
    /\ frame' = NextModel([frame.benchmark EXCEPT !.cleanup_calls = @ + 1])
    /\ UNCHANGED <<instructions, lastReg, nRegs, call, ret, gens, procs>>

\* After the last model run_benchmark returns.
RunBenchmarkReturn ==
    /\ pc = "next_model"
    /\ frame.begun = Len(call.models)
    /\ pc' = "done"
    /\ ret' = Returned(None)
    /\ UNCHANGED <<instructions, lastReg, nRegs, call, gens, procs, frame>>

NextRun ==
    \/ \E models \in ModelLists, tasks \in TaskLists : RunBenchmarkCall(models, tasks)
    \/ \E ok \in BOOLEAN : DownloadModel(ok)
    \/ \E ok \in BOOLEAN : SetupInferenceEngine(ok)
    \/ \E d \in LoadOutcomes : LoadTestData(d)
    \/ CreateAgent
    \/ RunTestsExecute
    \/ \E ok \in BOOLEAN : SaveResults(ok)
    \/ Cleanup
    \/ RunBenchmarkReturn
    \/ Return

SpecRun == Init /\ [][NextRun]_vars

\* ------------------------------------------------- process with context

\* The context argument of a call: left out, or passed by keyword.
NoContext == [given |-> FALSE]

ContextGiven(context) == [given |-> TRUE, context |-> context]

ContextArguments == { NoContext } \cup { ContextGiven(c) : c \in Contexts }

\* The value of the parameter context="" of NLQAgent.process and SQLAgent.process.
context_parameter(kw) == IF kw.given THEN kw.context ELSE <<>>

\* agent.process(input_text, custom_instruction_key, context=...) with the context
\* argument kw. AmbiguityAgent.process(self, input_text, custom_instruction_key=None)
\* has no parameter context: a call that passes one raises TypeError before the body
\* runs.
process_with(instrs, agent, input_text, custom_instruction_key, kw, o) ==
    CASE agent = "AmbiguityAgent" ->
             IF kw.given THEN [exc |-> "TypeError", gens |-> <<>>]
             ELSE AmbiguityAgent_process(instrs, input_text, custom_instruction_key, o)
      [] agent = "NLQAgent" ->
             NLQAgent_process(instrs, input_text, custom_instruction_key,
                              context_parameter(kw), o)
      [] agent = "SQLAgent" ->
             SQLAgent_process(instrs, input_text, custom_instruction_key,
                              context_parameter(kw), o)

\* One call of process on one of the three agents, with or without context.
ProcessWith(agent, input_text, custom_instruction_key, kw, o) ==
    LET r == process_with(instructions, agent, input_text, custom_instruction_key, kw, o)
    IN  /\ pc = "idle"
        /\ pc' = "done"
        /\ call' = [op |-> "process_with", kw |-> kw,
                    args |-> ProcessCall(agent, input_text, custom_instruction_key,
                                         context_parameter(kw))]
        /\ ret' = IF r.exc # "none" THEN Raised(r.exc) ELSE Returned(r.value)
        /\ gens' = r.gens
        /\ procs' = <<call'.args>>
        /\ UNCHANGED <<instructions, lastReg, nRegs, frame>>

\* One instruction is registered in the fresh registry, and process is called.
NextContext ==
    \/ \E key \in RegisterKeys, instruction \in Instructions :
           nRegs = 0 /\ Register(key, instruction)
    \/ \E name \in Names, sp \in SystemPrompts, t \in Templates, d \in Descriptions :
           nRegs = 0 /\ AddCustom(name, sp, t, d)
    \/ \E agent \in {"AmbiguityAgent", "NLQAgent", "SQLAgent"}, i \in Inputs,
          key \in ProcessKeys, kw \in ContextArguments, o \in GenOutcomes :
           ProcessWith(agent, i, key, kw, o)
    \/ Return

SpecContext == Init /\ [][NextContext]_vars

\* ------------------------------------------------------------- claims

\* The instruction registered last under `key`, None when none ever was.
LastRegistered(key) ==
    IF key \in DOMAIN lastReg THEN lastReg[key].instruction ELSE NoneInstruction

NeverRegistered(key) == key \notin DOMAIN lastReg

\* The step is a register call under `key` (add_custom registers under the key it
\* returns).
RegistersUnder(key) ==
    /\ pc = "idle"
    /\ \/ call'.op = "register" /\ call'.key = key
       \/ call'.op = "add_custom" /\ ret'.value = key

AllKeys == GetKeys \cup ProcessKeys \cup DefaultKeys

\* The default key and the hardcoded literal prompt of the agent of a process call.
DefaultKeyOf(c) ==
    CASE c.agent = "AmbiguityAgent" -> KEY_AMB
      [] c.agent = "NLQAgent" -> KEY_NLQ
      [] c.agent = "SQLAgent" -> KEY_SQL

LiteralPromptOf(c) ==
    CASE c.agent = "AmbiguityAgent" -> AMB_LITERAL_HEAD \o c.input_text \o AMB_LITERAL_TAIL
      [] c.agent = "NLQAgent" ->
             NLQ_LITERAL_HEAD \o c.input_text \o SEP \o ContextLine(c.context)
                 \o NLQ_LITERAL_TAIL
      [] c.agent = "SQLAgent" ->
             SQL_LITERAL_HEAD \o c.input_text \o SEP \o ContextLine(c.context)
                 \o SQL_LITERAL_TAIL

\* The prompt of process call c when its key counts as given exactly if given(key).
ThreeTiers(c, given) ==
    IF given /\ c.custom_instruction_key \in DOMAIN instructions
    THEN Compose(render_prompt(instructions[c.custom_instruction_key], c.input_text,
                               c.context))
    ELSE IF DefaultKeyOf(c) \in DOMAIN instructions
    THEN Compose(render_prompt(instructions[DefaultKeyOf(c)], c.input_text, c.context))
    ELSE [exc |-> "none", prompt |-> LiteralPromptOf(c)]

\* The n-th process call of the operation built the prompt `want`: it reached
\* generation with exactly that prompt, or rendering raised and nothing was generated.
BuiltAs(n, want) ==
    IF want.exc = "none"
    THEN Len(gens) >= n /\ gens[n].call.prompt = want.prompt
    ELSE Len(gens) < n /\ ret = Raised(want.exc)

\* C1 (as claimed): every process call resolves its instruction in three tiers: the
\* instruction under custom_instruction_key when the key is given (is not None) and is
\* in the registry; otherwise the instruction under the task's default key; the
\* hardcoded literal only when that is absent too. An unknown key behaves as no key.
C1_ThreeTierResolution ==
    \A n \in 1..Len(procs) :
        BuiltAs(n, ThreeTiers(procs[n], procs[n].custom_instruction_key # None))

\* C1 (what the code does): the same, with a key counting as given only when it is
\* neither None nor the empty str.
C1_ThreeTiersForNonEmptyKey ==
    \A n \in 1..Len(procs) :
        BuiltAs(n, ThreeTiers(procs[n], procs[n].custom_instruction_key \notin {None, <<>>}))

\* C2: when process is given a key that add_custom returned (and that still maps to the
\* instruction add_custom made), the prompt sent to generation is that instruction's
\* system_prompt, a blank line, and its user_prompt_template rendered.
C2_CustomKeySelectsCustomInstruction ==
    \A n \in 1..Len(gens) :
        LET key == procs[n].custom_instruction_key
        IN  (key \in DOMAIN lastReg /\ lastReg[key].via = "add_custom")
            => gens[n].call.prompt =
                   lastReg[key].instruction.system_prompt \o SEP
                       \o Format(lastReg[key].instruction.user_prompt_template,
                                 procs[n].input_text, procs[n].context).text

\* C2 witness: the NLQ agent generated from the key add_custom("f", ...) returned.
C2_Witness ==
    /\ pc = "done"
    /\ call.op = "process"
    /\ call.args.agent = "NLQAgent"
    /\ call.args.custom_instruction_key = CUSTOM_PREFIX \o <<"f">>
    /\ call.args.custom_instruction_key \in DOMAIN lastReg
    /\ lastReg[call.args.custom_instruction_key].via = "add_custom"
    /\ Len(gens) = 1

\* C3: the registry maps each key to the instruction registered last under it and to
\* nothing else: its keys are exactly the keys registered, get(key) is the latest
\* instruction for every key, and a register call under one key changes what no
\* other key maps to.
C3_LastWriteWins ==
    /\ [](/\ DOMAIN instructions = DOMAIN lastReg
          /\ \A key \in AllKeys : get(instructions, key) = LastRegistered(key)
          /\ (pc = "done" /\ call.op = "get") => ret = Returned(LastRegistered(call.key)))
    /\ [][\A key \in AllKeys :
              RegistersUnder(key)
                  => \A other \in AllKeys \ {key} :
                         get(instructions', other) = get(instructions, other)]_vars

\* C3 witness: get of a default key re-registered with another instruction.
C3_Witness ==
    /\ pc = "done"
    /\ call.op = "get"
    /\ call.key \in DefaultKeys
    /\ lastReg[call.key].via = "register"
    /\ ret.value \notin {DefaultNLQ, DefaultSQL, DefaultAMB}

\* C4: get of a key that was never registered returns None, does not raise, and
\* leaves the registry as it was.
C4_GetOfUnknownKeyIsNone ==
    [][(pc = "idle" /\ call'.op = "get" /\ NeverRegistered(call'.key))
           => (ret' = Returned(NoneInstruction) /\ instructions' = instructions)]_vars

\* C4 witness: get of a key no register call named.
C4_Witness == pc = "done" /\ call.op = "get" /\ NeverRegistered(call.key)

\* C5: add_custom(name, ...) registers its instruction under "custom_" + name and
\* returns that key, and leaves every default key mapped to what it mapped to before.
C5_AddCustomKeepsDefaults ==
    [][(pc = "idle" /\ call'.op = "add_custom")
           => /\ ret' = Returned(CUSTOM_PREFIX \o call'.name)
              /\ get(instructions', CUSTOM_PREFIX \o call'.name) =
                     CustomInstruction(call'.name, call'.system_prompt,
                                       call'.user_prompt_template, call'.description)
              /\ \A d \in DefaultKeys : get(instructions', d) = get(instructions, d)]_vars

\* C5 witness: add_custom was given the name of a default key.
C5_Witness == pc = "done" /\ call.op = "add_custom" /\ call.name \in DefaultKeys

\* C10: NLQSQLPipeline.execute calls the NLQ stage with user_query and the empty
\* context, and the SQL stage with the NLQ stage's refined_query as input and
\* "Refined from: " + user_query as context; the result's stages.sql.input is
\* stages.nlq.refined_query.
C10_PipelineThreadsRefinedQuery ==
    call.op = "NLQSQLPipeline.execute" =>
        /\ Len(procs) >= 1 =>
               procs[1] = ProcessCall("NLQAgent", call.user_query,
                                      call.nlq_instruction_key, <<>>)
        /\ Len(procs) >= 2 =>
               /\ frame.nlq_result = nlq_result(call.user_query, gens[1].response)
               /\ procs[2] = ProcessCall("SQLAgent", frame.nlq_result.refined_query,
                                         call.sql_instruction_key,
                                         REFINED_FROM \o call.user_query)
        /\ (pc = "done" /\ ret.exc = "none") =>
               /\ Len(procs) = 2
               /\ ret.value.stages.nlq = frame.nlq_result
               /\ ret.value.stages.sql.input = ret.value.stages.nlq.refined_query

\* C10 witness: an execute that returned.
C10_Witness == pc = "done" /\ call.op = "NLQSQLPipeline.execute" /\ ret.exc = "none"

\* render_prompt was called on the instruction of a key that is in the registry.
RenderedKeyRegistered ==
    /\ pc = "done"
    /\ call.op = "render_prompt"
    /\ call.key \in DOMAIN instructions

\* The tokens a template is made of when every one of its placeholders has a value:
\* the two fields render_prompt supplies, and the doubled braces that stand for a brace.
SatisfiableTokens ==
    { <<"{", "{">>, <<"}", "}">>, <<"{">> \o F_INPUT \o <<"}">>,
      <<"{">> \o F_CONTEXT \o <<"}">> }

\* Token `tok` stands in template t at position b.
TokenAt(t, b, tok) ==
    /\ b + Len(tok) - 1 <= Len(t)
    /\ \A k \in 1..Len(tok) : t[b + k - 1] = tok[k]

\* From position i on, every brace of template t begins one of the tokens above.
RECURSIVE SatisfiableFrom(_, _)
SatisfiableFrom(t, i) ==
    LET braces == { j \in i..Len(t) : t[j] \in {"{", "}"} }
    IN  IF braces = {} THEN TRUE
        ELSE LET b == CHOOSE j \in braces : \A k \in braces : j <= k
             IN  \E tok \in SatisfiableTokens :
                     TokenAt(t, b, tok) /\ SatisfiableFrom(t, b + Len(tok))

Satisfiable(t) == SatisfiableFrom(t, 1)

\* C6 (as claimed): for every key in the registry, whether seeded or added through
\* register or add_custom, get(key).render_prompt(user_input, "") does not raise.
C6_RenderNeverRaises == RenderedKeyRegistered => ret.exc = "none"

\* C6 (what the code does): the templates of the three seeded defaults are satisfiable,
\* and get(key).render_prompt(user_input, "") does not raise and returns the
\* instruction's system_prompt whenever the template of the instruction under the key
\* is satisfiable, that is, made of text, doubled braces and the placeholders {input}
\* and {context} only.
C6_RenderOfSatisfiableTemplate ==
    /\ \A d \in DefaultKeys : Satisfiable(NewRegistry[d].user_prompt_template)
    /\ (RenderedKeyRegistered /\ Satisfiable(instructions[call.key].user_prompt_template))
           => /\ ret.exc = "none"
              /\ ret.value[1] = instructions[call.key].system_prompt

\* C6 witness: an instruction that register or add_custom put in the registry, whose
\* template holds a placeholder, was rendered and did not raise.
C6_Witness ==
    /\ RenderedKeyRegistered
    /\ lastReg[call.key].via \in {"register", "add_custom"}
    /\ \E b \in 1..Len(instructions[call.key].user_prompt_template) :
           TokenAt(instructions[call.key].user_prompt_template, b,
                   <<"{">> \o F_CONTEXT \o <<"}">>)
    /\ ret.exc = "none"

\* Two characters are the same letter in either case, or the same character.
Capitals ==
    <<"A", "B", "C", "D", "E", "F", "G", "H", "I", "J", "K", "L", "M", "N", "O", "P", "Q",
      "R", "S", "T", "U", "V", "W", "X", "Y", "Z">>

Smalls ==
    <<"a", "b", "c", "d", "e", "f", "g", "h", "i", "j", "k", "l", "m", "n", "o", "p", "q",
      "r", "s", "t", "u", "v", "w", "x", "y", "z">>

SameLetter(a, b) == a = b \/ \E n \in 1..26 : {a, b} = {Capitals[n], Smalls[n]}

\* r and q differ in letter case only.
SameButCase(r, q) == Len(r) = Len(q) /\ \A i \in 1..Len(r) : SameLetter(r[i], q[i])

\* The lower-case word w occurs in r, whatever the letter case of r.
Occurs(w, r) ==
    \E i \in 1..(Len(r) - Len(w) + 1) : \A k \in 1..Len(w) : SameLetter(r[i + k - 1], w[k])

W_AMBIGUOUS == <<"a", "m", "b", "i", "g", "u", "o", "u", "s">>

W_NOT_AMBIGUOUS == <<"n", "o", "t", " ">> \o W_AMBIGUOUS

W_CLEAR == <<"c", "l", "e", "a", "r">>

\* The classification the rule of the claim gives response r.
Classified(r) ==
    IF Occurs(W_AMBIGUOUS, r) /\ ~Occurs(W_NOT_AMBIGUOUS, r) THEN "Ambiguous"
    ELSE IF Occurs(W_CLEAR, r) \/ Occurs(W_NOT_AMBIGUOUS, r) THEN "Clear"
    ELSE "Unknown"

ClassificationExtracted == pc = "done" /\ call.op = "_extract_classification"

\* C7: _extract_classification returns, for every response, 'Ambiguous' when the
\* response holds "ambiguous" and not "not ambiguous" (in any letter case), otherwise
\* 'Clear' when it holds "clear" or "not ambiguous", otherwise 'Unknown'; it never
\* raises, and responses that differ in letter case only are classified alike.
C7_ClassificationRule ==
    ClassificationExtracted =>
        /\ ret = Returned(Classified(call.response))
        /\ \A q \in Verdicts :
               SameButCase(q, call.response) => _extract_classification(q) = ret.value

\* C7 witness: a response holding both "ambiguous" and "clear", not all in lower case,
\* was classified 'Ambiguous'.
C7_Witness ==
    /\ ClassificationExtracted
    /\ Occurs(W_AMBIGUOUS, call.response)
    /\ Occurs(W_CLEAR, call.response)
    /\ \E i \in 1..Len(call.response) : \E n \in 1..26 : call.response[i] = Capitals[n]
    /\ ret.value = "Ambiguous"

\* s without the whitespace at its two ends.
Trimmed(s) ==
    LET inked == { i \in 1..Len(s) : s[i] \notin Whitespace }
    IN  IF inked = {} THEN <<>>
        ELSE SubSeq(s, CHOOSE i \in inked : \A j \in inked : i <= j,
                       CHOOSE i \in inked : \A j \in inked : i >= j)

\* The text of s before its first line break.
FirstLineOf(s) ==
    LET breaks == { i \in 1..Len(s) : s[i] = "\n" }
    IN  IF breaks = {} THEN s
        ELSE SubSeq(s, 1, (CHOOSE i \in breaks : \A j \in breaks : i <= j) - 1)

\* s without the first label of the ordered list that it begins with, if any.
WithoutLabel(s) ==
    LET matching == { n \in 1..Len(SQL_PREFIXES) : TokenAt(s, 1, SQL_PREFIXES[n]) }
    IN  IF matching = {} THEN s
        ELSE LET n == CHOOSE m \in matching : \A k \in matching : m <= k
             IN  SubSeq(s, Len(SQL_PREFIXES[n]) + 1, Len(s))

SqlExtracted == pc = "done" /\ call.op = "_extract_sql"

\* C8 (as claimed): the extracted sql is the first line of what remains of the trimmed
\* response once at most one label is removed, trimmed: the first line is taken and
\* then trimmed, or the remainder is trimmed and its first line taken.
C8_ExtractionAsClaimed ==
    SqlExtracted =>
        LET remaining == WithoutLabel(Trimmed(call.response))
        IN  \/ ret = Returned(Trimmed(FirstLineOf(remaining)))
            \/ ret = Returned(FirstLineOf(Trimmed(remaining)))

\* C8 (what the code does): the response is trimmed and at most one label, the first
\* of the list that it begins with, is removed; what remains is trimmed, its first line
\* is taken, and that line is trimmed again. The two examples come out as stated.
C8_ExtractionTrimsTwice ==
    SqlExtracted =>
        /\ ret = Returned(Trimmed(FirstLineOf(Trimmed(WithoutLabel(Trimmed(call.response))))))
        /\ call.response = SqlExampleLabelled =>
               ret.value = <<"S", "E", "L", "E", "C", "T", " ", "*", " ", "F", "R", "O", "M",
                             " ", "t">>
        /\ call.response = SqlExampleUnlabelled =>
               ret.value = <<"n", "a", "m", "e", " ", "f", "r", "o", "m", " ", "u", "s", "e",
                             "r", "s">>

\* C8 witness: a response of a label, a line break and a query gave the query, which
\* begins with a label that was not removed.
C8_Witness ==
    /\ SqlExtracted
    /\ call.response = SqlExampleLabelled
    /\ TokenAt(ret.value, 1, SQL_PREFIXES[5])

NLQProcessed ==
    /\ pc = "done"
    /\ call.op = "process"
    /\ call.args.agent = "NLQAgent"
    /\ ret.exc = "none"

\* C9: NLQAgent.process returns as full_response the response generate returned, and
\* as refined_query that response without the whitespace at its two ends, whole:
\* nothing else is added, removed or cut off.
C9_RefinedQueryIsTrimmedResponse ==
    NLQProcessed =>
        /\ Len(gens) = 1
        /\ ret.value.full_response = gens[1].response
        /\ ret.value.refined_query = Trimmed(gens[1].response)

\* C9 witness: generate returned several lines with whitespace at both ends.
C9_Witness ==
    /\ NLQProcessed
    /\ Len(gens[1].response) > 2
    /\ gens[1].response[1] \in Whitespace
    /\ gens[1].response[Len(gens[1].response)] \in Whitespace
    /\ \E i \in 1..Len(ret.value.refined_query) : ret.value.refined_query[i] = "\n"

InExecute == call.op = "NLQSQLPipeline.execute"

\* The agents NLQSQLPipeline.execute calls, in the order of the calls.
StageAgents == <<"NLQAgent", "SQLAgent">>

\* C11: within one NLQSQLPipeline.execute the process calls made so far are the NLQ
\* stage's, then the SQL stage's, at most one of each; an execute that returns has made
\* exactly one of each; and the step that makes the SQL stage's call is taken only
\* when the NLQ stage's process call has returned, with its result at hand.
C11_StagesInOrder ==
    /\ [](InExecute =>
              /\ Len(procs) <= 2
              /\ \A n \in 1..Len(procs) : procs[n].agent = StageAgents[n]
              /\ Len(procs) = 2 => (Len(gens) >= 1 /\ gens[1].exc = "none")
              /\ (pc = "done" /\ ret.exc = "none") => (Len(procs) = 2 /\ Len(gens) = 2))
    /\ [][(InExecute /\ Len(procs') = 2 /\ Len(procs) # 2)
              => /\ pc = "sql_stage"
                 /\ Len(procs) = 1
                 /\ Len(gens) = 1
                 /\ frame.nlq_result = nlq_result(call.user_query, gens[1].response)]_vars

\* C11 witness: an execute whose two stages both generated, the SQL stage last.
C11_Witness ==
    /\ InExecute
    /\ pc = "done"
    /\ Len(gens) = 2
    /\ gens[1].call.agent = "NLQAgent"
    /\ gens[2].call.agent = "SQLAgent"

ExecuteReturned == InExecute /\ pc = "done" /\ ret.exc = "none"

\* C12: the dict NLQSQLPipeline.execute returns has original_query equal to the
\* user_query argument and to stages.nlq.input, refined_query equal to
\* stages.nlq.refined_query, sql equal to stages.sql.sql, and under stages the two
\* dicts the agents' process calls returned, themselves and not copies of them.
C12_PipelineResultConsistent ==
    ExecuteReturned =>
        /\ ret.value.original_query = call.user_query
        /\ ret.value.original_query = ret.value.stages.nlq.input
        /\ ret.value.refined_query = ret.value.stages.nlq.refined_query
        /\ ret.value.sql = ret.value.stages.sql.sql
        /\ ret.value.stages.nlq = nlq_result(procs[1].input_text, gens[1].response)
        /\ ret.value.stages.sql = sql_result(procs[2].input_text, gens[2].response)
        /\ frame.stages = [nlq |-> 1, sql |-> 2]

\* C12 witness: an execute returned a dict whose sql is not the SQL stage's whole
\* response and whose refined_query is not the original query.
C12_Witness ==
    /\ ExecuteReturned
    /\ ret.value.sql # ret.value.stages.sql.full_response
    /\ ret.value.refined_query # ret.value.original_query

\* The n-th generate call of the operation raised.
GenerationRaised(n) == n <= Len(gens) /\ gens[n].exc # "none"

\* C13: a failure of generation is neither caught nor retried. A process call
\* generates at most once, and exactly once when it returns; when a generate call
\* raises, it is the last call of the operation, which is over and has raised the
\* same exception with no result; in NLQSQLPipeline.execute a failure of the NLQ
\* stage's generation leaves the SQL stage uncalled.
C13_GenerationFailurePropagates ==
    /\ Len(gens) <= Len(procs)
    /\ (pc = "done" /\ ret.exc = "none" /\ procs # <<>>) => Len(gens) = Len(procs)
    /\ \A n \in 1..Len(gens) :
           GenerationRaised(n) =>
               /\ n = Len(gens)
               /\ n = Len(procs)
               /\ pc = "done"
               /\ ret = Raised(gens[n].exc)
    /\ (InExecute /\ GenerationRaised(1)) =>
           \A n \in 1..Len(procs) : procs[n].agent # "SQLAgent"

\* C13 witness: generation raised in the NLQ stage of an execute.
C13_Witness == InExecute /\ GenerationRaised(1) /\ ret.exc = gens[1].exc

InAmbiguityBatch == call.op = "benchmark_ambiguity"

InRunTests == call.op = "run_tests"

\* The number of test cases of the batch, and how many of them were processed.
CasesOfBatch ==
    IF InAmbiguityBatch THEN Len(call.queries) ELSE Len(call.test_data.rows)

CasesProcessed == IF InAmbiguityBatch THEN Len(procs) ELSE Len(frame.results)

\* Processing one of the cases raised.
CaseRaised ==
    IF InAmbiguityBatch THEN Len(procs) > Len(frame.results)
    ELSE \E n \in 1..Len(frame.results) : "error" \in DOMAIN frame.results[n]

\* C14 (as claimed): in every batch driver, when processing one test case raises, the
\* batch is not aborted: when the driver is over, every case has been processed.
C14_FailuresAreLocal ==
    (pc = "done" /\ (InAmbiguityBatch \/ InRunTests) /\ CaseRaised)
        => CasesProcessed = CasesOfBatch

\* C14 (what the code does, run_tests only): a case that raises is recorded with its
\* error and counted as failed, and run_tests returns one entry per case.
C14_RunTestsFailuresAreLocal ==
    (pc = "done" /\ InRunTests) =>
        /\ ret.exc = "none"
        /\ Len(ret.value.results) = Len(call.test_data.rows)

\* The row of the n-th case of run_tests has no expected value: the DataFrame has no
\* expected_output column, or the cell is empty (NaN, or the empty str).
NoGroundTruth(n) ==
    \/ ~call.test_data.has_column
    \/ call.test_data.rows[n].expected_output \in { NaNCell, StrCell(<<>>) }

\* C18 (as claimed): in run_tests a case whose expected value is empty or absent, and
\* whose execute returned, is recorded with passed None, and counts neither as passed
\* nor as failed.
C18_NoGroundTruthIsSkipped ==
    InRunTests =>
        \A n \in 1..Len(frame.results) :
            (NoGroundTruth(n) /\ "error" \notin DOMAIN frame.results[n])
                => frame.results[n].passed = "None"

\* C18 (what the code does): passed is None exactly when the DataFrame has no
\* expected_output column; an empty cell is compared like any other value.
C18_SkippedOnlyWithoutColumn ==
    InRunTests =>
        \A n \in 1..Len(frame.results) :
            "error" \notin DOMAIN frame.results[n]
                => (frame.results[n].passed = "None" <=> ~call.test_data.has_column)

\* C19 (as claimed): the NLQ-to-SQL benchmark run hands the schema context to the
\* pipeline, which accepts it; every query is processed, and the context of every SQL
\* stage call holds the schema context.
C19_SchemaContextReachesSqlStage ==
    (pc = "done" /\ call.op = "benchmark_nlq_sql_pipeline") =>
        /\ ret.exc = "none"
        /\ Len(procs) = 2 * Len(call.query_pairs)
        /\ \A n \in 1..Len(procs) :
               procs[n].agent = "SQLAgent" => Contains(procs[n].context, frame.schema_context)

CalledTwice == pc = "done" /\ call.op = "process" /\ Len(procs) = 2

Generated == { n \in 1..Len(gens) : gens[n].exc = "none" }

\* C16 (as claimed): every generate call decodes deterministically: no random
\* sampling, and a temperature of about 0 (at most 0.1 here).
C16_DeterministicDecoding ==
    \A n \in 1..Len(gens) :
        /\ ~gens[n].call.do_sample
        /\ gens[n].call.temperature_pct <= 10

\* C16 (what the code does): every generate call samples (do_sample=True) at
\* temperature 0.7 and top_p 0.95, with max_new_tokens 256 for the ambiguity and NLQ
\* agents and 200 for the SQL agent.
C16_SampledDecoding ==
    \A n \in 1..Len(gens) :
        /\ gens[n].call.do_sample
        /\ gens[n].call.temperature_pct = DEFAULT_TEMPERATURE_PCT
        /\ gens[n].call.top_p_pct = TOP_P_PCT
        /\ gens[n].call.max_new_tokens =
               CASE gens[n].call.agent = "AmbiguityAgent" -> AMB_MAX_LENGTH
                 [] gens[n].call.agent = "NLQAgent" -> NLQ_MAX_LENGTH
                 [] gens[n].call.agent = "SQLAgent" -> SQL_MAX_LENGTH

\* The text of s after its first n characters.
After(s, n) == [i \in 1..(Len(s) - n) |-> s[i + n]]

\* C17 (as claimed): the response of generate is the decoded text without the prompt
\* when the decoded text begins with the prompt (the remainder, with or without the
\* whitespace at its ends), and the decoded text itself, no character removed, when
\* it does not begin with the prompt.
C17_PromptStrippedAsPrefixOnly ==
    \A n \in Generated :
        LET prompt  == gens[n].call.prompt
            decoded == gens[n].decoded
        IN  IF TokenAt(decoded, 1, prompt)
            THEN gens[n].response \in { After(decoded, Len(prompt)),
                                        Trimmed(After(decoded, Len(prompt))) }
            ELSE gens[n].response = decoded

\* C17 (what the code does): when the prompt occurs anywhere in the decoded text, the
\* first len(prompt) characters are cut off and the rest is stripped of whitespace;
\* otherwise the decoded text is the response.
C17_PromptLengthCutWhenContained ==
    \A n \in Generated :
        LET prompt  == gens[n].call.prompt
            decoded == gens[n].decoded
        IN  gens[n].response =
                IF \E b \in 1..Len(decoded) : TokenAt(decoded, b, prompt)
                THEN Trimmed(After(decoded, Len(prompt)))
                ELSE decoded

\* C20: a fresh registry holds exactly the three default keys; no operation removes a
\* key, so the three are in the registry in every state reached through register and
\* add_custom (called with instructions, as their signatures say); and no process
\* call finds its task's default instruction missing or sends generation the
\* hardcoded literal prompt.
C20_DefaultKeysAlwaysPresent ==
    /\ [](/\ DOMAIN NewRegistry = DefaultKeys
          /\ Cardinality(DefaultKeys) = 3
          /\ DefaultKeys \subseteq DOMAIN instructions
          /\ \A n \in 1..Len(procs) :
                 /\ get(instructions, DefaultKeyOf(procs[n])) # NoneInstruction
                 /\ n <= Len(gens) => gens[n].call.prompt # LiteralPromptOf(procs[n]))
    /\ [][DOMAIN instructions \subseteq DOMAIN instructions']_vars

\* C20 witness: after register was called with a default key, the agent of that task
\* was called without a key and generated.
C20_Witness ==
    /\ pc = "done"
    /\ call.op = "process"
    /\ call.args.custom_instruction_key = None
    /\ lastReg[DefaultKeyOf(call.args)].via = "register"
    /\ Len(gens) = 1
\* run_benchmark is running or has ended.
InRunBenchmark == call.op = "run_benchmark"

\* An agent was created by create_agent, and the task it was created for is over.
AgentTestsCompleted ==
    /\ InRunBenchmark
    /\ frame.agent # NoAgent
    /\ frame.agent.tests_done

\* C21 (as claimed): once all the test cases of an agent created by create_agent have
\* completed, teardown has been called on it, and teardown is not called on an agent
\* that still has test cases to execute.
C21_TeardownAfterTests ==
    (InRunBenchmark /\ frame.agent # NoAgent) =>
        IF frame.agent.tests_done
        THEN frame.agent.teardown_calls = 1
        ELSE frame.agent.teardown_calls = 0

\* C21 (what the code does): create_agent calls setup once, run_tests calls execute
\* once per row, and nothing calls teardown.
C21_TeardownNeverCalled ==
    (InRunBenchmark /\ frame.agent # NoAgent) =>
        /\ frame.agent.setup_calls = 1
        /\ frame.agent.teardown_calls = 0
        /\ frame.agent.tests_done => frame.agent.execute_calls >= 1

\* The iterations of run_benchmark that are over and were followed by the download
\* of the next model.
FollowedByDownload == { k \in 1..Len(frame.finished) : k < frame.begun }

\* C22 (as claimed): every model whose download succeeded has had cleanup executed
\* when the download of the next model begins, whatever its setup and its tasks did.
C22_CleanupBeforeNextModel ==
    InRunBenchmark =>
        \A k \in FollowedByDownload :
            frame.finished[k].model_loaded => frame.finished[k].cleanup_calls = 1

\* C22 (what the code does): cleanup is executed for the models whose download and
\* engine setup both succeeded, and for no other; a model whose engine setup failed
\* is left with `continue` before cleanup.
C22_CleanupOnlyAfterEngineSetup ==
    InRunBenchmark =>
        \A k \in 1..Len(frame.finished) :
            frame.finished[k].cleanup_calls =
                (IF frame.finished[k].model_loaded /\ frame.finished[k].engine_ready
                 THEN 1 ELSE 0)
\* The instruction the n-th process call of the operation takes from the registry:
\* the one registered last under its key when the key is given and known, the one
\* registered last under the default key of its task otherwise.
InstructionUsed(n) ==
    LET key == procs[n].custom_instruction_key
    IN  IF key \notin {None, <<>>} /\ key \in DOMAIN lastReg
        THEN lastReg[key].instruction
        ELSE lastReg[DefaultKeyOf(procs[n])].instruction

\* The characters of s from position a to position b.
Slice(s, a, b) == [i \in 1..(b - a + 1) |-> s[i + a - 1]]

\* C23: the one prompt a process call passes to generation is the system_prompt of
\* the instruction it took from the registry (under a custom key or the default
\* key), then two newline characters, then that instruction's user prompt rendered
\* with the call's input and context, and nothing else, for each of the three agents.
C23_PromptIsSystemBlankLineUser ==
    \A n \in 1..Len(gens) :
        LET prompt == gens[n].call.prompt
            system == InstructionUsed(n).system_prompt
            user   == Format(InstructionUsed(n).user_prompt_template, procs[n].input_text,
                             procs[n].context).text
        IN  /\ gens[n].call.agent = procs[n].agent
            /\ Len(prompt) = Len(system) + 2 + Len(user)
            /\ Slice(prompt, 1, Len(system)) = system
            /\ prompt[Len(system) + 1] = "\n"
            /\ prompt[Len(system) + 2] = "\n"
            /\ Slice(prompt, Len(system) + 3, Len(prompt)) = user

\* C23 witness: a pipeline execute generated twice, the NLQ stage from its default
\* instruction and the SQL stage from an instruction registered under a custom key.
C23_Witness ==
    /\ pc = "done"
    /\ call.op = "NLQSQLPipeline.execute"
    /\ call.nlq_instruction_key = None
    /\ call.sql_instruction_key \in DOMAIN instructions
    /\ Len(gens) = 2
\* process was called, with or without a context argument, and is over.
ProcessedWith == pc = "done" /\ call.op = "process_with"

\* C24 (as claimed): each of the three agents takes a context argument, the empty
\* str when it is left out, and builds its prompt with that value for the context
\* placeholder.
C24_ContextAcceptedAndSubstituted ==
    ProcessedWith => BuiltAs(1, ThreeTiers(call.args, Truthy(call.args.custom_instruction_key)))

\* C24 (what the code does): NLQAgent and SQLAgent do; AmbiguityAgent.process raises
\* TypeError when a context is passed, whatever its value, and renders with the empty
\* str when none is.
C24_AmbiguityAgentTakesNoContext ==
    ProcessedWith =>
        IF call.args.agent = "AmbiguityAgent" /\ call.kw.given
        THEN ret = Raised("TypeError") /\ gens = <<>>
        ELSE BuiltAs(1, ThreeTiers(call.args, Truthy(call.args.custom_instruction_key)))

\* C24: the ambiguity agent was given a context.
C24_AmbiguityGivenContext ==
    /\ ProcessedWith
    /\ call.args.agent = "AmbiguityAgent"
    /\ call.kw.given
    /\ call.kw.context # <<>>
\* A top-level process call has returned a result.
ProcessReturned == pc = "done" /\ call.op = "process" /\ ret.exc = "none"

\* The task name of the agent of process call c and the name of its task-specific
\* field.
TaskNameOf(c) ==
    CASE c.agent = "AmbiguityAgent" ->
             <<"a", "m", "b", "i", "g", "u", "i", "t", "y", "_", "d", "e", "t", "e", "c", "t",
               "i", "o", "n">>
      [] c.agent = "NLQAgent" ->
             <<"n", "l", "q", "_", "r", "e", "f", "i", "n", "e", "m", "e", "n", "t">>
      [] c.agent = "SQLAgent" ->
             <<"s", "q", "l", "_", "g", "e", "n", "e", "r", "a", "t", "i", "o", "n">>

TaskFieldOf(c) ==
    CASE c.agent = "AmbiguityAgent" -> "classification"
      [] c.agent = "NLQAgent" -> "refined_query"
      [] c.agent = "SQLAgent" -> "sql"

\* The value of the task-specific field for response r.
TaskFieldFrom(c, r) ==
    CASE c.agent = "AmbiguityAgent" -> Classified(r)
      [] c.agent = "NLQAgent" -> Trimmed(r)
      [] c.agent = "SQLAgent" ->
             Trimmed(FirstLineOf(Trimmed(WithoutLabel(Trimmed(r)))))

\* C25: the dict process returns has exactly four fields: input, the input_text
\* argument; task, the task name of the agent; full_response, the text generate
\* returned; and the one field of the task (classification, refined_query or sql),
\* computed from that full_response.
C25_ResultFields ==
    ProcessReturned =>
        LET c == call.args
            v == ret.value
        IN  /\ Len(gens) = 1
            /\ DOMAIN v = {"input", "task", "full_response", TaskFieldOf(c)}
            /\ v.input = c.input_text
            /\ v.task = TaskNameOf(c)
            /\ v.full_response = gens[1].response
            /\ v[TaskFieldOf(c)] = TaskFieldFrom(c, v.full_response)

\* C25 witness: SQLAgent.process returned a sql that is neither its input nor its
\* full response.
C25_Witness ==
    /\ ProcessReturned
    /\ call.args.agent = "SQLAgent"
    /\ ret.value.sql # <<>>
    /\ ret.value.sql # ret.value.full_response
    /\ ret.value.sql # ret.value.input
\* The step is made by Agent.process, NLQSQLPipeline.execute or
\* AmbiguityPipeline.execute: it enters one of them, runs a stage of one, or both.
StepOfProcessOrExecute ==
    /\ pc \in {"idle", "nlq_stage", "sql_stage"}
    /\ call'.op \in {"process", "NLQSQLPipeline.execute", "AmbiguityPipeline.execute"}

ProcessedAroundRegister ==
    /\ pc = "done"
    /\ call.op = "process"
    /\ Len(procs) = 2
    /\ "reregistered" \in DOMAIN frame

\* The key the registry is asked for by process call c when it holds keys `known`.
ResolvedKey(c, known) ==
    IF c.custom_instruction_key \notin {None, <<>>} /\ c.custom_instruction_key \in known
    THEN c.custom_instruction_key
    ELSE DefaultKeyOf(c)

\* C27: the instruction is resolved at each process call: when a key is registered
\* anew between two process calls on one agent, the second call builds its prompt
\* from what the registry holds at the second call (from the newly registered
\* instruction when its key is the one the call resolves to), and what the first call
\* returned stays as it was returned.
C27_ResolutionAtEachCall ==
    /\ [](ProcessedAroundRegister =>
              LET c    == procs[2]
                  key  == ResolvedKey(c, DOMAIN lastReg)
                  want == Compose(render_prompt(lastReg[key].instruction, c.input_text,
                                                c.context))
              IN  /\ BuiltAs(Len(frame.first_gens) + 1, want)
                  /\ key = frame.reregistered => lastReg[key].via = "register"
                  /\ frame.first_gens = SubSeq(gens, 1, Len(frame.first_gens)))
    /\ [][(pc = "between" \/ pc = "second") => frame'.first = frame.first]_vars

\* C27 witness: the key the two calls resolve to was registered again between them,
\* and the second call has sent generation another prompt than the first.
C27_Witness ==
    /\ ProcessedAroundRegister
    /\ frame.reregistered = ResolvedKey(procs[2], DOMAIN lastReg)
    /\ Len(gens) = 2
    /\ gens[1].call.prompt # gens[2].call.prompt
    /\ frame.first.exc = "none"
\* The entries of the results list r that record a raised exception, and those scored
\* `score` ("True", "False", "None").
Errors(r) == { n \in 1..Len(r) : "error" \in DOMAIN r[n] }

Scored(r, score) == { n \in 1..Len(r) : "error" \notin DOMAIN r[n] /\ r[n].passed = score }

\* C28: the tallies of run_tests are consistent for any mix of cases (the test data
\* having the index 0, 1, ... load_test_data gives it). While it runs and when it
\* returns, results holds one entry per case executed, in iteration order; passed
\* counts the cases scored True and failed the cases scored False and the cases that
\* raised, each of which is recorded with its index and its error; at return there is
\* one entry per test case and passed + failed is total minus the number of cases
\* scored None. Each case adds one entry and at most one to passed + failed.
C28_TalliesConsistent ==
    /\ [](InRunTests =>
              LET r == frame.results
              IN  /\ frame.total = Len(call.test_data.rows)
                  /\ Len(r) <= frame.total
                  /\ \A n \in 1..Len(r) : r[n].index = n - 1
                  /\ \A n \in Errors(r) : DOMAIN r[n] = {"index", "error"}
                  /\ frame.passed = Cardinality(Scored(r, "True"))
                  /\ frame.failed = Cardinality(Scored(r, "False")) + Cardinality(Errors(r))
                  /\ pc = "done" =>
                         /\ ret = Returned(frame)
                         /\ Len(r) = frame.total
                         /\ frame.passed + frame.failed
                                = frame.total - Cardinality(Scored(r, "None")))
    /\ [][(InRunTests /\ pc = "tests_loop" /\ frame' # frame) =>
              /\ Len(frame'.results) = Len(frame.results) + 1
              /\ frame'.passed >= frame.passed
              /\ frame'.failed >= frame.failed
              /\ (frame'.passed + frame'.failed) - (frame.passed + frame.failed) \in {0, 1}]_vars

\* C28 witness: run_tests has returned from a batch in which one case raised and
\* another passed.
C28_Witness ==
    /\ pc = "done"
    /\ InRunTests
    /\ Errors(frame.results) # {}
    /\ Scored(frame.results, "True") # {}

\* C28 witness of unscored cases: a batch without expected_output column in which one
\* case raised.
C28_UnscoredAndRaising ==
    /\ pc = "done"
    /\ InRunTests
    /\ Errors(frame.results) # {}
    /\ Scored(frame.results, "None") # {}
\* benchmark_ambiguity runs or has run on a queries file that yields no test case.
EmptyAmbiguityBatch == InAmbiguityBatch /\ Len(call.queries) = 0

\* C30: on a queries file that yields no test case benchmark_ambiguity processes
\* nothing and raises ZeroDivisionError while it builds the summary, before the
\* results file is opened: at no moment of such a run is a report written.
C30_EmptyBatchFailsBeforeSaving ==
    EmptyAmbiguityBatch =>
        /\ ~frame.saved
        /\ procs = <<>>
        /\ frame.results = <<>>
        /\ pc = "done" => ret = Raised("ZeroDivisionError")

\* C30 witness: benchmark_ambiguity is over on an empty batch.
C30_Witness == EmptyAmbiguityBatch /\ pc = "done" /\ ret.exc # "none"
\* run_all_benchmarks runs or has run.
InRunAll == call.op = "run_all_benchmarks"

\* The positions in the configuration of the models that are not disabled, and the
\* k-th of them.
EnabledPositions ==
    { i \in 1..Len(call.models) : call.models[i].enabled \in {"True", "missing"} }

EnabledPosition(k) ==
    CHOOSE i \in EnabledPositions :
        Cardinality({ j \in EnabledPositions : j < i }) = k - 1

====
